---- MODULE Spec2Model ----
(***************************************************************************)
(* Model of the vendor-parameter fusion engine (src/src/fusion_engine.py,  *)
(* src/src/numeric_processor.py, src/src/text_processor.py).               *)
(*                                                                         *)
(* A Python str is modelled as a sequence of characters; a character is a  *)
(* one-element TLA+ string for ASCII and a named token for the non-ASCII   *)
(* characters the code mentions:                                           *)
(*   "GE" U+2265, "LE" U+2264, "FGT" U+FF1E, "FLT" U+FF1C, "PM" U+00B1,    *)
(*   "DEGC" U+2103, "DEG" U+00B0, "MU" U+03BC, "TIMES" U+00D7,             *)
(*   "FCOLON" U+FF1A, "DUN" U+3001, "ENDASH" U+2013, "EMDASH" U+2014,      *)
(*   "DQUOTE" U+0022, "FCOMMA" U+FF0C, "FSEMI" U+FF1B, "NL" U+000A,        *)
(*   "Z_xxx" a CJK ideograph.                                              *)
(* Ideographs (name = code point):                                         *)
(*   Z_bu=4E0D Z_yu=4E8E Z_dai=4EE3 Z_di1=4F4E Z_zuo=4F5C Z_xiang=50CF     *)
(*   Z_gong=516C Z_shua=5237 Z_xiang3=54CD Z_wei=56F4 Z_bei=5907           *)
(*   Z_duo=591A Z_da=5927 Z_cun=5BF8 Z_xiao3=5C0F Z_shao=5C11              *)
(*   Z_gong1=5DE5 Z_cha=5DEE Z_ying4=5E94 Z_du=5EA6 Z_sao=626B Z_ju=636E   *)
(*   Z_miao=63CF Z_cao=64CD Z_xiao=6548 Z_shu=6570 Z_jin=65A4 Z_duan=65AD  *)
(*   Z_xin=65B0 Z_wu=65E0 Z_shi=65F6 Z_zui=6700 Z_you=6709 Z_lv=7387       *)
(*   Z_dian=7535 Z_fu=7B26 Z_di=7B2C Z_deng=7B49 Z_jing=7CBE Z_su4=7D20    *)
(*   Z_zhi=81F3 Z_ying=82F1 Z_fan=8303 Z_she=8BBE Z_wu4=8BEF Z_chao=8D85   *)
(*   Z_guo=8FC7 Z_su=901F Z_zhong=91CD Z_liang=91CF Z_jian=95F4            *)
(*   Z_pin=9891 Z_gao=9AD8                                                 *)
(*   Z_chi=6C60 Z_rong=5BB9 Z_bo=6CE2 Z_chang=957F Z_gong2=529F            *)
(*   Z_ya=538B Z_chi3=5C3A Z_wai=5916 Z_xing=5F62 Z_tan=63A2 Z_tou=5934    *)
(*   Z_lei=7C7B Z_xing2=578B Z_xian=663E Z_shi4=793A Z_ping=5C4F           *)
(*   Z_cai=5F69 Z_se=8272 Z_hei=9ED1 Z_bai=767D Z_chu=89E6 Z_mo=6478       *)
(*   Z_fei=975E Z_cai2=6750 Z_zhi4=8D28 Z_hao=53F7 Z_jie=63A5              *)
(*   Z_kou=53E3 Z_wang=7F51 Z_fu4=9644 Z_jia=52A0 Z_neng=80FD Z_xi=7CFB    *)
(*   Z_tong=7EDF Z_ban=7248 Z_ben=672C Z_chu3=5904 Z_li=7406 Z_qi=5668     *)
(*   Z_zhong1=4E2D Z_yang=592E Z_ku=9177 Z_rui=777F Z_te=7279 Z_er=5C14    *)
(*   Z_rui4=9510 Z_long=9F99 Z_nei=5185 Z_cun2=5B58 Z_chu2=50A8            *)
(*   Z_ying2=786C Z_pan=76D8 Z_gu=56FA Z_tai=6001 Z_ci=78C1 Z_mu=5E55      *)
(*   Z_fen=5206 Z_bian=8FA8 Z_ye=6DB2 Z_jing1=6676 Z_ka=5361 Z_du2=72EC    *)
(*   Z_li4=7ACB Z_ji=96C6 Z_cheng=6210 Z_luo=7EDC Z_yi=4EE5 Z_tai4=592A    *)
(*   Z_yuan=6E90 Z_leng=51B7 Z_que=5374 Z_san=6563 Z_re=70ED               *)
(*   Z_feng=98CE Z_qi2=5176 Z_ta=4ED6 Z_er4=4E8C Z_wei2=7EF4               *)
(*   Z_kong=7A7A Z_san1=4E09 Z_quan=5168 Z_dan=5355 Z_hui=7070             *)
(*   Z_kong4=63A7 Z_pu=666E Z_tong1=901A Z_xian4=7EBF Z_lan=84DD           *)
(*   Z_ya2=7259 Z_lian=8FDE Z_hao2=6BEB Z_mi=7C73 Z_li2=5398               *)
(*   Z_qian=5343 Z_ke=514B Z_sheng=5347                                    *)
(* None (a missing cell, pd.notna false) is the model value NoneVal.       *)
(***************************************************************************)
EXTENDS Integers, Sequences, FiniteSets, TLC

\* None as a vendor cell or a fused value, as a type label, as a number
NoneVal == <<"NONE">>
NoneType == "None"
NoneNum == 0 - 2000000000

\* the one element of a singleton set; The({e : x \in {v}}) is e with x
\* standing for the value v, computed once
The(S) == CHOOSE x \in S : TRUE

\* ------------------------------------------------------------------------
\* Characters
\* ------------------------------------------------------------------------
Digits == {"0", "1", "2", "3", "4", "5", "6", "7", "8", "9"}
UpperSeq == <<"A", "B", "C", "D", "E", "F", "G", "H", "I", "J", "K", "L", "M",
              "N", "O", "P", "Q", "R", "S", "T", "U", "V", "W", "X", "Y", "Z">>
LowerSeq == <<"a", "b", "c", "d", "e", "f", "g", "h", "i", "j", "k", "l", "m",
              "n", "o", "p", "q", "r", "s", "t", "u", "v", "w", "x", "y", "z">>
UpperLetters == {UpperSeq[i] : i \in 1..26}
LowerLetters == {LowerSeq[i] : i \in 1..26}
AsciiLetters == UpperLetters \cup LowerLetters
\* the ideographs (U+4E00..U+9FFF) that occur in the modelled rows and tables
CJK == {
    "Z_bu", "Z_yu", "Z_dai", "Z_di1", "Z_zuo", "Z_xiang", "Z_gong", "Z_shua",
    "Z_xiang3", "Z_wei", "Z_bei", "Z_duo", "Z_da", "Z_cun", "Z_xiao3",
    "Z_shao", "Z_gong1", "Z_cha", "Z_ying4", "Z_du", "Z_sao", "Z_ju",
    "Z_miao", "Z_cao", "Z_xiao", "Z_shu", "Z_jin", "Z_duan", "Z_xin", "Z_wu",
    "Z_shi", "Z_zui", "Z_you", "Z_lv", "Z_dian", "Z_fu", "Z_di", "Z_deng",
    "Z_jing", "Z_su4", "Z_zhi", "Z_ying", "Z_fan", "Z_she", "Z_wu4", "Z_chao",
    "Z_guo", "Z_su", "Z_zhong", "Z_liang", "Z_jian", "Z_pin", "Z_gao",
    "Z_chi", "Z_rong", "Z_bo", "Z_chang", "Z_gong2", "Z_ya", "Z_chi3",
    "Z_wai", "Z_xing", "Z_tan", "Z_tou", "Z_lei", "Z_xing2", "Z_xian",
    "Z_shi4", "Z_ping", "Z_cai", "Z_se", "Z_hei", "Z_bai", "Z_chu", "Z_mo",
    "Z_fei", "Z_cai2", "Z_zhi4", "Z_hao", "Z_jie", "Z_kou", "Z_wang",
    "Z_fu4", "Z_jia", "Z_neng", "Z_xi", "Z_tong", "Z_ban", "Z_ben",
    "Z_chu3", "Z_li", "Z_qi", "Z_zhong1", "Z_yang", "Z_ku", "Z_rui",
    "Z_te", "Z_er", "Z_rui4", "Z_long", "Z_nei", "Z_cun2", "Z_chu2",
    "Z_ying2", "Z_pan", "Z_gu", "Z_tai", "Z_ci", "Z_mu", "Z_fen", "Z_bian",
    "Z_ye", "Z_jing1", "Z_ka", "Z_du2", "Z_li4", "Z_ji", "Z_cheng",
    "Z_luo", "Z_yi", "Z_tai4", "Z_yuan", "Z_leng", "Z_que", "Z_san",
    "Z_re", "Z_feng", "Z_qi2", "Z_ta", "Z_er4", "Z_wei2", "Z_kong",
    "Z_san1", "Z_quan", "Z_dan", "Z_hui", "Z_kong4", "Z_pu", "Z_tong1",
    "Z_xian4", "Z_lan", "Z_ya2", "Z_lian", "Z_hao2", "Z_mi", "Z_li2",
    "Z_qian", "Z_ke", "Z_sheng" }
Whitespace == {" ", "NL"}

\* str.lower() on one character
LowerChar(c) ==
    IF c \in UpperLetters
    THEN LowerSeq[CHOOSE i \in 1..26 : UpperSeq[i] = c]
    ELSE c

\* regex \w (Unicode): letters, digits, underscore; ideographs and the
\* Greek mu are letters
WordChars == Digits \cup AsciiLetters \cup CJK \cup {"_", "MU"}
IsWordChar(c) == c \in WordChars

\* ------------------------------------------------------------------------
\* str helpers
\* ------------------------------------------------------------------------
Lower(s) == [i \in 1..Len(s) |-> LowerChar(s[i])]

RECURSIVE LStrip(_)
LStrip(s) == IF s # <<>> /\ Head(s) \in Whitespace THEN LStrip(Tail(s)) ELSE s

RECURSIVE RStrip(_)
RStrip(s) == IF s # <<>> /\ s[Len(s)] \in Whitespace
             THEN RStrip(SubSeq(s, 1, Len(s) - 1)) ELSE s

\* str.strip()
Strip(s) == RStrip(LStrip(s))

\* s[i:].startswith(p), 1-based
StartsWithAt(s, i, p) ==
    /\ i + Len(p) - 1 <= Len(s)
    /\ \A k \in 1..Len(p) : s[i + k - 1] = p[k]

\* `p in s`
Contains(s, p) ==
    \E t \in {s}, q \in {p} :
        \E i \in 1..(Len(t) - Len(q) + 1) :
            (q = <<>> \/ t[i] = q[1]) /\ StartsWithAt(t, i, q)

\* str.replace(old, new): leftmost non-overlapping occurrences (old # "")
RECURSIVE Replace(_, _, _)
Replace(s, old, new) ==
    IF s = <<>> THEN <<>>
    ELSE IF StartsWithAt(s, 1, old)
         THEN new \o Replace(SubSeq(s, Len(old) + 1, Len(s)), old, new)
         ELSE <<Head(s)>> \o Replace(Tail(s), old, new)

\* re.sub(r'\s+', ' ', s)
CollapseWs(s) ==
    The({ The({ [k \in 1..Len(kept) |->
                   IF t[kept[k]] \in Whitespace THEN " " ELSE t[kept[k]]]
                : kept \in {SelectSeq([i \in 1..Len(t) |-> i],
                                      LAMBDA i : \/ t[i] \notin Whitespace
                                                 \/ i = 1
                                                 \/ t[i - 1] \notin Whitespace)} })
          : t \in {s} })

\* list.index(x): first position of x
IndexOf(seq, x) == CHOOSE i \in 1..Len(seq) : seq[i] = x /\ \A j \in 1..(i - 1) : seq[j] # x

\* number of occurrences of x in seq
Count(seq, x) == Cardinality({i \in 1..Len(seq) : seq[i] = x})

\* `x in seq`
InSeq(x, seq) == \E i \in 1..Len(seq) : seq[i] = x

\* Counter(seq).most_common(1)[0][0]: highest count, ties go to the element
\* inserted first (seq # <<>>)
MostCommon(seq) ==
    seq[CHOOSE i \in 1..Len(seq) :
           /\ \A j \in 1..Len(seq) : Count(seq, seq[j]) <= Count(seq, seq[i])
           /\ \A j \in 1..(i - 1) : Count(seq, seq[j]) < Count(seq, seq[i])]

RECURSIVE SelectSeqIdx(_, _, _)
\* [seq[i] for i in order if keep[i]]
SelectSeqIdx(seq, keep, i) ==
    IF i > Len(seq) THEN <<>>
    ELSE (IF keep[i] THEN <<seq[i]>> ELSE <<>>) \o SelectSeqIdx(seq, keep, i + 1)

\* length of the maximal run of characters of class cls starting at s[i]
RunOf(s, i, cls) ==
    The({ IF i > Len(t) THEN 0
          ELSE (CHOOSE j \in i..(Len(t) + 1) :
                   /\ j > Len(t) \/ t[j] \notin c
                   /\ \A k \in i..(j - 1) : t[k] \in c) - i
          : t \in {s}, c \in {cls} })

RunOfNot(s, i, cls) ==
    The({ IF i > Len(t) THEN 0
          ELSE (CHOOSE j \in i..(Len(t) + 1) :
                   /\ j > Len(t) \/ t[j] \in c
                   /\ \A k \in i..(j - 1) : t[k] \notin c) - i
          : t \in {s}, c \in {cls} })

\* round-half-even of n / d for d > 0
RoundDiv(n, d) ==
    LET q == n \div d
        r == n % d
    IN IF 2 * r > d THEN q + 1
       ELSE IF 2 * r < d THEN q
       ELSE IF q % 2 = 0 THEN q ELSE q + 1

\* ------------------------------------------------------------------------
\* Configuration tables
\* ------------------------------------------------------------------------
\* CONFIG['similarity_threshold'] * 100 and
\* CONFIG['medium_similarity_threshold'] * 100
HighThresholdPercent == 80
MediumThresholdPercent == 60

\* NEGATIVE_WORDS: the sentinel "no data" placeholders (wu, "-", "/")
NEGATIVE_WORDS == { <<"Z_wu">>, <<"-">>, <<"/">> }

\* FUSION_TYPES and the type labels returned outside that table
T_exact_match == "ExactMatch"
T_high_similarity == "HighSimilarity"
T_medium_similarity == "MediumSimilarity"
T_semantic_match == "SemanticMatch"
T_numeric_range == "NumericRange"
T_unit_conversion == "UnitConversion"
T_single_supplier == "SingleSupplier"
T_manual_review == "ManualReview"
T_insufficient_data == "InsufficientData"
T_tolerance == "ToleranceFusion"
T_error_struct == "ErrorStructFusion"
T_multi_value == "MultiValue"

\* the literal marker returned for a row without valid data
InsufficientMarker == <<"Z_wu", "Z_you", "Z_xiao", "Z_shu", "Z_ju">>

\* ------------------------------------------------------------------------
\* FusionEngine._normalize_comparison_operators
\* ------------------------------------------------------------------------
NoFullWidthMutant(text) ==
    Replace(Replace(Replace(Replace(text,
        <<">", "=">>, <<"GE">>),
        <<"<", "=">>, <<"LE">>),
        <<">">>, <<"GE">>),
        <<"<">>, <<"LE">>)

_normalize_comparison_operators(text) ==
    Replace(Replace(Replace(Replace(
    Replace(Replace(Replace(Replace(text,
        <<"FGT", "=">>, <<"GE">>),
        <<"FLT", "=">>, <<"LE">>),
        <<"FGT">>, <<"GE">>),
        <<"FLT">>, <<"LE">>),
        <<">", "=">>, <<"GE">>),
        <<"<", "=">>, <<"LE">>),
        <<">">>, <<"GE">>),
        <<"<">>, <<"LE">>)

\* ------------------------------------------------------------------------
\* TextProcessor
\* ------------------------------------------------------------------------
\* normalize_text(text) with remove_modifiers = False
normalize_text(text) ==
    IF text = <<>> \/ text \in NEGATIVE_WORDS THEN <<>>
    ELSE Strip(CollapseWs(Lower(Strip(text))))

\* remove_punctuation: re.sub(r'[^\w\u4e00-\u9fff]', '', text)
remove_punctuation(text) ==
    SelectSeq(text, LAMBDA c : IsWordChar(c))

\* ------------------------------------------------------------------------
\* FusionEngine.try_exact_match / handle_conflict
\* ------------------------------------------------------------------------
NoResult == [value |-> NoneVal, type |-> NoneType]

ExactNormalized(data) ==
    [i \in 1..Len(data) |-> remove_punctuation(normalize_text(data[i]))]

ExactNeedsThreeMutant(data) ==
    The({ The({ IF Count(normalized, mc) >= 3
                THEN [value |-> data[IndexOf(normalized, mc)], type |-> T_exact_match]
                ELSE NoResult
                : mc \in {MostCommon(normalized)} })
          : normalized \in {ExactNormalized(data)} })

try_exact_match(data) ==
    The({ The({ IF Count(normalized, mc) >= 2
                THEN [value |-> data[IndexOf(normalized, mc)], type |-> T_exact_match]
                ELSE NoResult
                : mc \in {MostCommon(normalized)} })
          : normalized \in {ExactNormalized(data)} })

ConflictLastValueMutant(data) ==
    The({ IF Count(data, mc) >= 2 THEN mc ELSE data[Len(data)]
          : mc \in {MostCommon(data)} })

ConflictSecondValueMutant(data) ==
    The({ IF Count(data, mc) >= 2 THEN mc ELSE data[IF Len(data) >= 2 THEN 2 ELSE 1]
          : mc \in {MostCommon(data)} })

\* CONFIG['conflict_resolution_method'] = 'majority'
handle_conflict(data) ==
    The({ IF Count(data, mc) >= 2 THEN mc ELSE data[1]
          : mc \in {MostCommon(data)} })

\* ------------------------------------------------------------------------
\* difflib.SequenceMatcher(None, a, b).ratio()  (no junk; strings shorter
\* than the 200-character autojunk limit)
\* ------------------------------------------------------------------------
\* length of the common run of a[i..ahi] and b[j..bhi]
RECURSIVE RunLen(_, _, _, _, _, _)
RunLen(a, i, ahi, b, j, bhi) ==
    IF i <= ahi /\ j <= bhi /\ a[i] = b[j]
    THEN 1 + RunLen(a, i + 1, ahi, b, j + 1, bhi)
    ELSE 0

\* find_longest_match on a[alo..ahi], b[blo..bhi] (inclusive, 1-based):
\* the longest block, earliest in a, then earliest in b
find_longest_match(a, alo, ahi, b, blo, bhi) ==
    The({ CHOOSE p \in blocks :
            \A q \in blocks :
              \/ q[3] < p[3]
              \/ /\ q[3] = p[3]
                 /\ \/ p[1] < q[1]
                    \/ p[1] = q[1] /\ p[2] <= q[2]
          : blocks \in {{<<alo, blo, 0>>} \cup
                        {<<i, j, RunLen(a, i, ahi, b, j, bhi)>> :
                            i \in alo..ahi, j \in blo..bhi}} })

\* sum of the sizes of get_matching_blocks()
RECURSIVE MatchCount(_, _, _, _, _, _)
MatchCount(a, alo, ahi, b, blo, bhi) ==
    IF alo > ahi \/ blo > bhi THEN 0
    ELSE The({ IF m[3] = 0 THEN 0
               ELSE m[3] + MatchCount(a, alo, m[1] - 1, b, blo, m[2] - 1)
                         + MatchCount(a, m[1] + m[3], ahi, b, m[2] + m[3], bhi)
               : m \in {find_longest_match(a, alo, ahi, b, blo, bhi)} })

Matches(a, b) == MatchCount(a, 1, Len(a), b, 1, Len(b))

\* int(round(100 * 2.0 * M / T)), round-half-even
RatioPercent(a, b) ==
    IF Len(a) + Len(b) = 0 THEN 100
    ELSE RoundDiv(200 * Matches(a, b), Len(a) + Len(b))

\* ------------------------------------------------------------------------
\* fuzzywuzzy.fuzz as called by TextProcessor.calculate_similarity
\* ------------------------------------------------------------------------
\* code point order of the characters (only the relative order matters)
CharOrder == <<
    "NL", " ", "DQUOTE", "%", "'", "(", ")", "*", "+", ",", "-", ".",
    "/", "0", "1", "2", "3", "4", "5", "6", "7", "8", "9", ":", ";",
    "<", "=", ">", "A", "B", "C", "D", "E", "F", "G", "H", "I", "J",
    "K", "L", "M", "N", "O", "P", "Q", "R", "S", "T", "U", "V", "W",
    "X", "Y", "Z", "_", "a", "b", "c", "d", "e", "f", "g", "h", "i",
    "j", "k", "l", "m", "n", "o", "p", "q", "r", "s", "t", "u", "v",
    "w", "x", "y", "z", "~", "DEG", "PM", "TIMES", "MU", "ENDASH",
    "EMDASH", "DEGC", "LE", "GE", "DUN", "Z_san1", "Z_bu", "Z_zhong1",
    "Z_er4", "Z_yu", "Z_ta", "Z_dai", "Z_yi", "Z_di1", "Z_zuo",
    "Z_chu2", "Z_xiang", "Z_ke", "Z_quan", "Z_gong", "Z_qi2", "Z_nei",
    "Z_leng", "Z_fen", "Z_shua", "Z_gong2", "Z_jia", "Z_qian",
    "Z_sheng", "Z_dan", "Z_ka", "Z_que", "Z_ya", "Z_li2", "Z_kou",
    "Z_hao", "Z_xiang3", "Z_qi", "Z_wei", "Z_gu", "Z_xing2", "Z_chu3",
    "Z_bei", "Z_wai", "Z_duo", "Z_da", "Z_tai4", "Z_yang", "Z_tou",
    "Z_cun2", "Z_rong", "Z_cun", "Z_xiao3", "Z_shao", "Z_er", "Z_chi3",
    "Z_ping", "Z_gong1", "Z_cha", "Z_mu", "Z_ying4", "Z_du", "Z_xing",
    "Z_cai", "Z_tai", "Z_cheng", "Z_sao", "Z_ju", "Z_tan", "Z_jie",
    "Z_kong4", "Z_miao", "Z_mo", "Z_cao", "Z_xiao", "Z_san", "Z_shu",
    "Z_jin", "Z_duan", "Z_xin", "Z_wu", "Z_shi", "Z_xian", "Z_pu",
    "Z_jing1", "Z_zui", "Z_you", "Z_ben", "Z_cai2", "Z_hao2", "Z_chi",
    "Z_bo", "Z_ye", "Z_yuan", "Z_hui", "Z_re", "Z_ban", "Z_ya2", "Z_te",
    "Z_du2", "Z_lv", "Z_li", "Z_dian", "Z_bai", "Z_pan", "Z_rui",
    "Z_ying2", "Z_ci", "Z_shi4", "Z_kong", "Z_li4", "Z_fu", "Z_di",
    "Z_deng", "Z_mi", "Z_lei", "Z_jing", "Z_xi", "Z_su4", "Z_xian4",
    "Z_luo", "Z_tong", "Z_wei2", "Z_wang", "Z_neng", "Z_zhi", "Z_se",
    "Z_ying", "Z_fan", "Z_lan", "Z_chu", "Z_she", "Z_wu4", "Z_zhi4",
    "Z_chao", "Z_bian", "Z_guo", "Z_lian", "Z_tong1", "Z_su", "Z_ku",
    "Z_zhong", "Z_liang", "Z_rui4", "Z_chang", "Z_jian", "Z_fu4",
    "Z_ji", "Z_fei", "Z_pin", "Z_feng", "Z_gao", "Z_hei", "Z_long",
    "FCOMMA", "FCOLON", "FSEMI", "FLT", "FGT" >>
CharCode(c) == CHOOSE i \in 1..Len(CharOrder) : CharOrder[i] = c

\* s < t for Python str
RECURSIVE StrLess(_, _)
StrLess(s, t) ==
    IF t = <<>> THEN FALSE
    ELSE IF s = <<>> THEN TRUE
    ELSE IF Head(s) = Head(t) THEN StrLess(Tail(s), Tail(t))
    ELSE CharCode(Head(s)) < CharCode(Head(t))

\* fuzz.ratio: 0 for an empty operand, 100 for equal operands
fuzz_ratio(s1, s2) ==
    IF s1 = <<>> \/ s2 = <<>> THEN 0
    ELSE IF s1 = s2 THEN 100
    ELSE RatioPercent(s1, s2)

\* characters U+0080..U+00FF, deleted by utils.asciidammit
Latin1High == {"DEG", "PM", "TIMES"}

\* utils.full_process(s, force_ascii=True)
full_process(s) ==
    Strip(Lower(SelectSeq(
        [i \in 1..Len(s) |->
            IF s[i] \in Latin1High \/ IsWordChar(s[i]) THEN s[i] ELSE " "],
        LAMBDA c : c \notin Latin1High)))

\* str.split(): the whitespace-separated tokens, in order
RECURSIVE Split(_)
Split(s) ==
    The({ IF t = <<>> THEN <<>>
          ELSE The({ <<SubSeq(t, 1, n)>> \o Split(SubSeq(t, n + 1, Len(t)))
                     : n \in {RunOfNot(t, 1, Whitespace)} })
          : t \in {LStrip(s)} })

\* sorted(tokens)
RECURSIVE SortTokens(_)
SortTokens(toks) ==
    IF toks = <<>> THEN <<>>
    ELSE The({ <<toks[m]>>
               \o SortTokens(SelectSeqIdx(toks, [i \in 1..Len(toks) |-> i # m], 1))
               : m \in {CHOOSE i \in 1..Len(toks) :
                          /\ \A j \in 1..Len(toks) : ~StrLess(toks[j], toks[i])
                          /\ \A j \in 1..(i - 1) : toks[j] # toks[i]} })

\* " ".join(tokens)
RECURSIVE Join(_)
Join(toks) ==
    IF toks = <<>> THEN <<>>
    ELSE IF Len(toks) = 1 THEN toks[1]
    ELSE toks[1] \o <<" ">> \o Join(Tail(toks))

\* fuzz.token_sort_ratio
token_sort_ratio(s1, s2) ==
    fuzz_ratio(Strip(Join(SortTokens(Split(full_process(s1))))),
               Strip(Join(SortTokens(Split(full_process(s2))))))

\* the distinct tokens of toks (a set, as a duplicate-free sequence)
RECURSIVE Dedup(_)
Dedup(toks) ==
    IF toks = <<>> THEN <<>>
    ELSE The({ IF InSeq(toks[Len(toks)], rest) THEN rest
               ELSE Append(rest, toks[Len(toks)])
               : rest \in {Dedup(SubSeq(toks, 1, Len(toks) - 1))} })

Max2(a, b) == IF a >= b THEN a ELSE b
Max3(a, b, c) == Max2(a, Max2(b, c))

\* fuzz.token_set_ratio
token_set_ratio(s1, s2) ==
    IF full_process(s1) = <<>> \/ full_process(s2) = <<>> THEN 0
    ELSE The({ The({ Max3(fuzz_ratio(c[1], c[2]), fuzz_ratio(c[1], c[3]),
                          fuzz_ratio(c[2], c[3]))
                     : c \in {<<sorted_sect,
                                Strip(sorted_sect \o <<" ">> \o diff1to2),
                                Strip(sorted_sect \o <<" ">> \o diff2to1)>> :
                              sorted_sect \in {Join(SortTokens(SelectSeq(tokens[1],
                                  LAMBDA t : InSeq(t, tokens[2]))))},
                              diff1to2 \in {Join(SortTokens(SelectSeq(tokens[1],
                                  LAMBDA t : ~InSeq(t, tokens[2]))))},
                              diff2to1 \in {Join(SortTokens(SelectSeq(tokens[2],
                                  LAMBDA t : ~InSeq(t, tokens[1]))))}} })
               : tokens \in {<<Dedup(Split(full_process(s1))),
                                Dedup(Split(full_process(s2)))>>} })

\* TextProcessor.calculate_similarity(text1, text2, method)
calculate_similarity(text1, text2, method) ==
    IF text1 = <<>> \/ text2 = <<>> THEN 0
    ELSE LET t1 == normalize_text(text1)
             t2 == normalize_text(text2)
         IN CASE method = "token_sort" -> token_sort_ratio(t1, t2)
              [] method = "token_set" -> token_set_ratio(t1, t2)
              [] OTHER -> fuzz_ratio(t1, t2)

\* the maximum over the three metrics, as try_similarity_fusion takes it
max_similarity(a, b) ==
    Max3(calculate_similarity(a, b, "fuzz"),
         calculate_similarity(a, b, "token_sort"),
         calculate_similarity(a, b, "token_set"))

\* ------------------------------------------------------------------------
\* FusionEngine.try_similarity_fusion
\* ------------------------------------------------------------------------
\* similar_groups: one pass over the seeds i, left to right; used is
\* used_indices
RECURSIVE similar_groups(_, _, _, _)
similar_groups(data, threshold_percent, i, used) ==
    IF i > Len(data) THEN <<>>
    ELSE IF i \in used THEN similar_groups(data, threshold_percent, i + 1, used)
    ELSE The({ IF later # {}
               THEN <<[seed |-> i, members |-> {i} \cup later]>>
                    \o similar_groups(data, threshold_percent, i + 1,
                                      used \cup {i} \cup later)
               ELSE similar_groups(data, threshold_percent, i + 1, used)
               : later \in {{j \in (i + 1)..Len(data) :
                               /\ j \notin used
                               /\ max_similarity(data[i], data[j])
                                    >= threshold_percent}} })

LastLargestMutant(groups) ==
    groups[CHOOSE g \in 1..Len(groups) :
             /\ \A h \in 1..Len(groups) :
                  Cardinality(groups[h].members) <= Cardinality(groups[g].members)
             /\ \A h \in (g + 1)..Len(groups) :
                  Cardinality(groups[h].members) < Cardinality(groups[g].members)]

\* max(similar_groups, key=len): the first group of maximal size
LargestGroup(groups) ==
    groups[CHOOSE g \in 1..Len(groups) :
             /\ \A h \in 1..Len(groups) :
                  Cardinality(groups[h].members) <= Cardinality(groups[g].members)
             /\ \A h \in 1..(g - 1) :
                  Cardinality(groups[h].members) < Cardinality(groups[g].members)]

SimilarityNeedsThreeMutant(data, threshold_percent) ==
    The({ IF groups # <<>> /\ Cardinality(LargestGroup(groups).members) >= 3
          THEN [value |-> data[LargestGroup(groups).seed], type |-> T_high_similarity]
          ELSE NoResult
          : groups \in {similar_groups(data, threshold_percent, 1, {})} })

try_similarity_fusion(data, threshold_percent) ==
    The({ IF groups # <<>>
          THEN [value |-> data[LargestGroup(groups).seed], type |-> T_high_similarity]
          ELSE NoResult
          : groups \in {similar_groups(data, threshold_percent, 1, {})} })

\* ------------------------------------------------------------------------
\* NumericProcessor.extract_numeric_info
\* A float is modelled as an integer count of 1/Scale (four decimals, the
\* precision convert_unit rounds to).
\* ------------------------------------------------------------------------
Scale == 10000

CharAt(s, i) == IF i >= 1 /\ i <= Len(s) THEN s[i] ELSE "EOS"

\* position after \s* starting at i
SkipWs(s, i) == i + RunOf(s, i, Whitespace)

\* length of the match of \d+[,\d]*\.?\d* at i (0: no match)
NumLenAt(s, i) ==
    IF CharAt(s, i) \notin Digits THEN 0
    ELSE The({ IF CharAt(s, i + a) = "."
               THEN a + 1 + RunOf(s, i + a + 1, Digits)
               ELSE a
               : a \in {RunOf(s, i, Digits \cup {","})} })

\* the two alternatives of the unit group [a-zA-Z<deg><degC><mu>/]+|[CJK]+
UnitLetters == AsciiLetters \cup {"DEG", "DEGC", "MU", "/"}
UnitLenAt(s, i) ==
    IF CharAt(s, i) \in UnitLetters THEN RunOf(s, i, UnitLetters)
    ELSE RunOf(s, i, CJK)

RECURSIVE IntOf(_)
IntOf(ds) ==
    IF ds = <<>> THEN 0
    ELSE 10 * IntOf(SubSeq(ds, 1, Len(ds) - 1))
         + (CHOOSE d \in 0..9 : CharOrder[CharCode("0") + d] = ds[Len(ds)])

\* float(text.replace(',', '')) for a match of the number pattern
ParseNum(text) ==
    The({ The({ IntOf(SubSeq(t, 1, dot - 1)) * Scale
                + IntOf(SubSeq(SubSeq(t, dot + 1, Len(t)) \o <<"0", "0", "0", "0">>,
                               1, 4))
                : dot \in {IF InSeq(".", t) THEN IndexOf(t, ".") ELSE Len(t) + 1} })
          : t \in {SelectSeq(text, LAMBDA c : c # ",")} })

Token(v, u, paren) == [value |-> v, unit |-> u, has_paren_unit |-> paren]

\* length of the match of one pattern element at s[i]; 0 is a failure for
\* every element but \s* and the optional unit
StepLen(s, i, step) ==
    CASE step = "NUM" -> NumLenAt(s, i)
      [] step = "WS" -> RunOf(s, i, Whitespace)
      [] step \in {"UNIT", "UNIT?"} -> UnitLenAt(s, i)
      [] step = "SEP" -> IF CharAt(s, i) \in {"-", "~", "Z_zhi"} THEN 1 ELSE 0
      [] step = "CONTENT" ->
           RunOf(s, i, Digits \cup Whitespace \cup {"-", ".", ","})
      [] step = "LEAD" ->
           IF CharAt(s, i) \in Whitespace \cup {"GE", "LE", ">", "<", "="}
           THEN 1 ELSE 0
      [] step = "SIGN" -> IF CharAt(s, i) \in {"-", "+"} THEN 1 ELSE 0
      [] OTHER -> IF CharAt(s, i) = step THEN 1 ELSE 0

\* match of the pattern elements steps at s[i]: the start of every element
\* followed by the end of the match, or <<>>
RECURSIVE MatchAt(_, _, _)
MatchAt(s, i, steps) ==
    IF steps = <<>> THEN <<i>>
    ELSE The({ IF n = 0 /\ Head(steps) \notin {"WS", "UNIT?"} THEN <<>>
               ELSE The({ IF rest = <<>> THEN <<>> ELSE <<i>> \o rest
                          : rest \in {MatchAt(s, i + n, Tail(steps))} })
               : n \in {StepLen(s, i, Head(steps))} })

\* match of NUM \s* [-~zhi] \s* NUM \s* \( \s* UNIT \s* \) at i:
\* <<end, val1, val2, unit>> or <<0>>
ParenRangeAt(s, i) ==
    The({ IF b = <<>> THEN <<0>>
          ELSE <<b[11], ParseNum(SubSeq(s, b[1], b[2] - 1)),
                 ParseNum(SubSeq(s, b[5], b[6] - 1)), SubSeq(s, b[9], b[10] - 1)>>
          : b \in {MatchAt(s, i, <<"NUM", "WS", "SEP", "WS", "NUM", "WS", "(", "WS",
                                   "UNIT", "WS", ")">>)} })

\* match of NUM \s* \( \s* UNIT \s* \) at i: <<end, val, unit>> or <<0>>
SingleParenAt(s, i) ==
    The({ IF b = <<>> THEN <<0>>
          ELSE <<b[7], ParseNum(SubSeq(s, b[1], b[2] - 1)), SubSeq(s, b[5], b[6] - 1)>>
          : b \in {MatchAt(s, i, <<"NUM", "WS", "(", "WS", "UNIT", "WS", ")">>)} })

\* re.finditer(paren_number_pattern): the matches <<start, val1, val2, unit>>
RECURSIVE ParenRangeMatches(_, _)
ParenRangeMatches(s, i) ==
    IF i > Len(s) THEN <<>>
    ELSE The({ IF m[1] > 0
               THEN <<<<i, m[2], m[3], m[4]>>>> \o ParenRangeMatches(s, m[1] + 1)
               ELSE ParenRangeMatches(s, i + 1)
               : m \in {ParenRangeAt(s, i)} })

\* re.finditer(single_paren_pattern): the matches <<start, val, unit>>
RECURSIVE SingleParenMatches(_, _)
SingleParenMatches(s, i) ==
    IF i > Len(s) THEN <<>>
    ELSE The({ IF m[1] > 0
               THEN <<<<i, m[2], m[3]>>>> \o SingleParenMatches(s, m[1] + 1)
               ELSE SingleParenMatches(s, i + 1)
               : m \in {SingleParenAt(s, i)} })

\* match of \(([\d\s\-.,]+)\)\s*(UNIT) at i: <<end, content, unit>> or <<0>>
ParenUnitAt(s, i) ==
    The({ IF b = <<>> THEN <<0>>
          ELSE <<b[6] - 1, SubSeq(s, b[2], b[3] - 1), SubSeq(s, b[5], b[6] - 1)>>
          : b \in {MatchAt(s, i, <<"(", "CONTENT", ")", "WS", "UNIT">>)} })

\* paren_unit_map as the list of its items in dict order: a later match
\* with the same content overwrites the unit and keeps the position
RECURSIVE paren_unit_map(_, _, _)
paren_unit_map(s, i, acc) ==
    IF i > Len(s) THEN acc
    ELSE The({ IF m[1] > 0
               THEN paren_unit_map(s, m[1] + 1,
                      IF \E k \in 1..Len(acc) : acc[k][1] = m[2]
                      THEN [k \in 1..Len(acc) |->
                              IF acc[k][1] = m[2] THEN <<m[2], m[3]>> ELSE acc[k]]
                      ELSE Append(acc, <<m[2], m[3]>>))
               ELSE paren_unit_map(s, i + 1, acc)
               : m \in {ParenUnitAt(s, i)} })

RECURSIVE PlainTokens(_, _, _, _)
PlainTokens(s, i, processed, pmap) ==
    IF i > Len(s) THEN <<>>
    ELSE The({ IF b = <<>> THEN PlainTokens(s, i + 1, processed, pmap)
               ELSE IF i \in processed THEN PlainTokens(s, b[4], processed, pmap)
               ELSE The({ The({ <<Token(ParseNum(value_str),
                                        Strip(IF hits # {}
                                              THEN pmap[CHOOSE k \in hits :
                                                          \A h \in hits : k <= h][2]
                                              ELSE SubSeq(s, b[3], b[4] - 1)),
                                        hits # {})>>
                                \o PlainTokens(s, b[4], processed, pmap)
                                : hits \in {{k \in 1..Len(pmap) :
                                    Contains(SelectSeq(pmap[k][1],
                                               LAMBDA c : c # " " /\ c # "."),
                                             value_str)}} })
                          : value_str \in {SelectSeq(SubSeq(s, b[1], b[2] - 1),
                                                     LAMBDA c : c # ",")} })
               : b \in {MatchAt(s, i, <<"NUM", "WS", "UNIT?">>)} })

\* the tokens of step 4: re.finditer([\s GE LE > < =][-+] NUM \s* UNIT?)
RECURSIVE SignedTokens(_, _)
SignedTokens(s, i) ==
    IF i > Len(s) THEN <<>>
    ELSE The({ IF b = <<>> THEN SignedTokens(s, i + 1)
               ELSE <<Token((IF s[b[2]] = "-" THEN 0 - 1 ELSE 1)
                              * ParseNum(SubSeq(s, b[3], b[4] - 1)),
                            SubSeq(s, b[5], b[6] - 1), FALSE)>>
                    \o SignedTokens(s, b[6])
               : b \in {MatchAt(s, i, <<"LEAD", "SIGN", "NUM", "WS", "UNIT?">>)} })

RECURSIVE FlattenRange(_)
FlattenRange(ms) ==
    IF ms = <<>> THEN <<>>
    ELSE <<Token(ms[1][2], ms[1][4], TRUE), Token(ms[1][3], ms[1][4], TRUE)>>
         \o FlattenRange(Tail(ms))

extract_numeric_info(text) ==
    The({ The({ FlattenRange(ranges)
                \o [k \in 1..Len(singles) |->
                       Token(singles[k][2], singles[k][3], TRUE)]
                \o PlainTokens(text, 1,
                               {ranges[k][1] : k \in 1..Len(ranges)}
                               \cup {singles[k][1] : k \in 1..Len(singles)},
                               paren_unit_map(text, 1, <<>>))
                \o SignedTokens(text, 1)
                : singles \in {SelectSeq(SingleParenMatches(text, 1),
                      LAMBDA m : \A k \in 1..Len(ranges) : ranges[k][1] # m[1])} })
          : ranges \in {ParenRangeMatches(text, 1)} })

\* ------------------------------------------------------------------------
\* Unit table (MEDICAL_UNITS) and NumericProcessor.convert_unit
\* ------------------------------------------------------------------------
\* MEDICAL_UNITS in dict order.  A plain category carries units, base_unit
\* and conversions; the electrical category carries one conversions table
\* per sub-type.  A factor is the pair <<numerator, denominator>>.
U_kg == <<"k", "g">>
U_Hz == <<"H", "z">>
U_s == <<"s">>

MEDICAL_UNITS == <<
    [category |-> "mass", sub |-> "", base_unit |-> U_kg,
     conversions |-> << <<U_kg, 1, 1>>, <<<<"g">>, 1, 1000>>,
                        <<<<"Z_gong", "Z_jin">>, 1, 1>> >>],
    [category |-> "frequency", sub |-> "", base_unit |-> U_Hz,
     conversions |-> << <<U_Hz, 1, 1>>, <<<<"k", "H", "z">>, 1000, 1>> >>],
    [category |-> "time", sub |-> "", base_unit |-> U_s,
     conversions |-> << <<U_s, 1, 1>>, <<<<"m", "s">>, 1, 1000>> >>],
    [category |-> "temperature", sub |-> "", base_unit |-> <<"DEGC">>,
     conversions |-> << <<<<"DEGC">>, 1, 1>>, <<<<"DEG", "F">>, 1, 1>> >>],
    [category |-> "electrical", sub |-> "power", base_unit |-> <<"W">>,
     conversions |-> << <<<<"W">>, 1, 1>>, <<<<"k", "W">>, 1000, 1>> >>],
    [category |-> "electrical", sub |-> "voltage", base_unit |-> <<"V">>,
     conversions |-> << <<<<"V">>, 1, 1>>, <<<<"k", "V">>, 1000, 1>> >>] >>

\* identify_unit_category: index of the first table entry listing the unit
\* (case-insensitive), 0 for None
identify_unit_category(unit) ==
    The({ IF unit = <<>> \/ hits = {} THEN 0
          ELSE CHOOSE e \in hits : \A h \in hits : e <= h
          : hits \in {{e \in 1..Len(MEDICAL_UNITS) :
                         \E k \in 1..Len(MEDICAL_UNITS[e].conversions) :
                            Lower(MEDICAL_UNITS[e].conversions[k][1])
                              = Lower(unit)}} })

Factor(entry, unit_lower) ==
    The({ <<entry.conversions[k][2], entry.conversions[k][3]>>
          : k \in {CHOOSE k \in 1..Len(entry.conversions) :
                      /\ Lower(entry.conversions[k][1]) = unit_lower
                      /\ \A j \in (k + 1)..Len(entry.conversions) :
                           Lower(entry.conversions[j][1]) # unit_lower} })

\* _convert_temperature; the result is rounded to 2 decimals
_convert_temperature(value, from_unit, to_unit) ==
    LET celsius_units == {<<"DEGC">>, <<"DEG", "C">>, <<"C">>}
        is_from == from_unit \in celsius_units
        is_to == to_unit \in celsius_units
    IN IF is_from /\ ~is_to
       THEN RoundDiv(value * 9 + 160 * Scale, 5 * 100) * 100
       ELSE IF ~is_from /\ is_to
       THEN RoundDiv((value - 32 * Scale) * 5, 9 * 100) * 100
       ELSE value

CategoryOnlyMutant(value, from_unit, to_unit) ==
    The({ IF fc = 0 \/ tc = 0 THEN NoneNum
          ELSE IF MEDICAL_UNITS[fc].category # MEDICAL_UNITS[tc].category THEN NoneNum
          ELSE IF MEDICAL_UNITS[fc].category = "temperature"
          THEN _convert_temperature(value, from_unit, to_unit)
          ELSE The({ RoundDiv(value * ff[1] * tf[2], ff[2] * tf[1])
                     : ff \in {Factor(MEDICAL_UNITS[fc], Lower(from_unit))},
                       tf \in {Factor(MEDICAL_UNITS[tc], Lower(to_unit))} })
          : fc \in {identify_unit_category(from_unit)},
            tc \in {identify_unit_category(to_unit)} })

\* convert_unit(value, from_unit, to_unit): NoneNum when a unit is unknown
\* or the categories differ, else round(value * f(from) / f(to), 4)
convert_unit(value, from_unit, to_unit) ==
    The({ IF fc = 0 \/ tc = 0 THEN NoneNum
          ELSE IF fc # tc THEN NoneNum
          ELSE IF MEDICAL_UNITS[fc].category = "temperature"
          THEN _convert_temperature(value, from_unit, to_unit)
          ELSE The({ RoundDiv(value * ff[1] * tf[2], ff[2] * tf[1])
                     : ff \in {Factor(MEDICAL_UNITS[fc], Lower(from_unit))},
                       tf \in {Factor(MEDICAL_UNITS[tc], Lower(to_unit))} })
          : fc \in {identify_unit_category(from_unit)},
            tc \in {identify_unit_category(to_unit)} })

\* ------------------------------------------------------------------------
\* NumericProcessor classifiers
\* ------------------------------------------------------------------------
\* RANGE_KEYWORDS (fanwei, zhi)
RANGE_KEYWORDS == { <<"Z_fan", "Z_wei">>, <<"Z_zhi">> }

\* is_numeric
is_numeric(text) == \E i \in 1..Len(text) : text[i] \in Digits

\* re.search(\d+ \s* [sep] \s* \d+)
DigitSepDigit(s, sep) ==
    \E i \in 1..Len(s) :
        /\ s[i] \in Digits
        /\ LET p == SkipWs(s, i + 1)
           IN CharAt(s, p) \in sep /\ CharAt(s, SkipWs(s, p + 1)) \in Digits

\* is_range_value
is_range_value(text) ==
    \/ \E kw \in RANGE_KEYWORDS : Contains(text, kw)
    \/ DigitSepDigit(text, {"-", "~", "Z_fu"})

\* is_dimension_specification
is_dimension_specification(text) ==
    /\ text # <<>>
    /\ \E low \in {Lower(text)} :
        \/ \E i \in 1..Len(low) :
             \E du \in { <<"m", "m">>, <<"c", "m">>, <<"i", "n">>, <<"DQUOTE">>,
                         <<"'">>, <<"Z_ying", "Z_cun">>, <<".">> } :
                /\ low[i] \in Digits
                /\ StartsWithAt(low, SkipWs(low, i + 1), du)
                /\ \E x \in {SkipWs(low, SkipWs(low, i + 1) + Len(du))} :
                      /\ CharAt(low, x) \in {"TIMES", "x", "*", "/"}
                      /\ CharAt(low, SkipWs(low, x + 1)) \in Digits
        \/ \E i \in 1..Len(low) :
             \E px \in { <<"Z_xiang", "Z_su4">>, <<"p", "i", "x", "e", "l">> } :
                /\ low[i] \in Digits
                /\ CharAt(low, SkipWs(low, i + 1)) = "*"
                /\ \E d \in {SkipWs(low, SkipWs(low, i + 1) + 1)} :
                      /\ CharAt(low, d) \in Digits
                      /\ StartsWithAt(low, SkipWs(low, d + RunOf(low, d, Digits)),
                                      px)
        \/ /\ DigitSepDigit(text, {"TIMES", "x", "*"})
           /\ ~\E i \in 1..(Len(text) - 2) :
                 /\ text[i] \in Digits
                 /\ text[i + 1] = "-"
                 /\ text[i + 2] \in Digits

\* has_model_keywords
ModelKeywords == { <<"i", "3">>, <<"i", "5">>, <<"i", "7">>, <<"i", "9">>,
                   <<"i", "n", "t", "e", "l">>, <<"a", "m", "d">>,
                   <<"r", "y", "z", "e", "n">>, <<"x", "e", "o", "n">>,
                   <<"p", "e", "n", "t", "i", "u", "m">>,
                   <<"r", "t", "x">>, <<"g", "t", "x">>, <<"t", "e", "s", "l", "a">>,
                   <<"r", "a", "d", "e", "o", "n">>, <<"r", "x">>, <<"a", "r", "c">>,
                   <<"Z_dai">>, <<"Z_di">> }
has_model_keywords(text) ==
    text # <<>> /\ \E kw \in ModelKeywords : Contains(Lower(text), kw)

\* length of the match of (?:%|dB|db|degC|deg C) at i, ignoring case (0: none)
TolUnitLenAt(s, i) ==
    IF CharAt(s, i) \in {"%", "DEGC"} THEN 1
    ELSE IF LowerChar(CharAt(s, i)) = "d" /\ LowerChar(CharAt(s, i + 1)) = "b" THEN 2
    ELSE IF CharAt(s, i) = "DEG" /\ LowerChar(CharAt(s, i + 1)) = "c" THEN 2
    ELSE 0

\* is_error_tolerance
is_error_tolerance(text) ==
    /\ text # <<>>
    /\ \/ \E i \in 1..Len(text) :
             /\ text[i] \in {"PM", "+", "-"}
             /\ \E d \in {SkipWs(text, i + 1)} :
                \E n \in {RunOf(text, d, Digits)} :
                \E f \in {IF CharAt(text, d + n) = "."
                          THEN RunOf(text, d + n + 1, Digits) ELSE 0} :
                   /\ n > 0
                   /\ TolUnitLenAt(text,
                         SkipWs(text, d + n + (IF f > 0 THEN f + 1 ELSE 0))) > 0
       \/ /\ \E i \in 1..Len(text) :
                /\ text[i] \in Digits
                /\ CharAt(text, SkipWs(text, i + 1)) \in {"%", "PM", "+", "-"}
          /\ \E i \in 1..Len(text) :
                text[i] \in {"%", "DEGC", "d", "D", "b", "B"}

\* ------------------------------------------------------------------------
\* Number formatting
\* ------------------------------------------------------------------------
RECURSIVE IntToStr(_)
IntToStr(n) ==
    IF n < 10 THEN <<CharOrder[CharCode("0") + n]>>
    ELSE IntToStr(n \div 10) \o <<CharOrder[CharCode("0") + (n % 10)]>>

RECURSIVE Pow10(_)
Pow10(k) == IF k = 0 THEN 1 ELSE 10 * Pow10(k - 1)

RECURSIVE StripZeros(_)
StripZeros(ds) ==
    IF ds # <<>> /\ ds[Len(ds)] = "0" THEN StripZeros(SubSeq(ds, 1, Len(ds) - 1))
    ELSE ds

\* the decimals of a non-negative scaled value: "" or ".d..."
FracStr(a) ==
    The({ IF ds = <<>> THEN <<>> ELSE <<".">> \o ds
          : ds \in {StripZeros(SubSeq(IntToStr(Scale + (a % Scale)), 2, 5))} })

\* f"{v:g}": six significant digits, trailing zeros removed (values below
\* 10^6, above which Python switches to exponent notation)
FormatG(v) ==
    The({ The({ The({ (IF v < 0 /\ r # 0 THEN <<"-">> ELSE <<>>)
                      \o IntToStr(r \div Scale) \o FracStr(r)
                      : r \in {RoundDiv(a, Pow10(4 - dec)) * Pow10(4 - dec)} })
                : dec \in {IF a \div Scale = 0 THEN 4
                           ELSE IF 6 - Len(IntToStr(a \div Scale)) >= 4 THEN 4
                           ELSE 6 - Len(IntToStr(a \div Scale))} })
          : a \in {IF v < 0 THEN 0 - v ELSE v} })

\* str(v) for a float
StrFloat(v) ==
    LET a == IF v < 0 THEN 0 - v ELSE v
    IN (IF v < 0 THEN <<"-">> ELSE <<>>)
       \o IntToStr(a \div Scale)
       \o (IF a % Scale = 0 THEN <<".", "0">> ELSE FracStr(a))

\* round(v, 1)
Round1(v) == RoundDiv(v, Scale \div 10) * (Scale \div 10)

SeqMax(vals) == CHOOSE m \in {vals[i] : i \in 1..Len(vals)} :
                    \A i \in 1..Len(vals) : vals[i] <= m
SeqMin(vals) == CHOOSE m \in {vals[i] : i \in 1..Len(vals)} :
                    \A i \in 1..Len(vals) : vals[i] >= m

\* sorted(vals)[k], k 0-based
SortedAt(vals, k) ==
    CHOOSE m \in {vals[i] : i \in 1..Len(vals)} :
        /\ Cardinality({i \in 1..Len(vals) : vals[i] < m}) <= k
        /\ Cardinality({i \in 1..Len(vals) : vals[i] <= m}) > k

RECURSIVE Flatten(_)
Flatten(seqs) == IF seqs = <<>> THEN <<>> ELSE Head(seqs) \o Flatten(Tail(seqs))

\* ------------------------------------------------------------------------
\* NumericProcessor.normalize_comparison_operators / normalize_text_prefix /
\* is_relevant_data
\* ------------------------------------------------------------------------
\* the same rewriting as FusionEngine._normalize_comparison_operators
normalize_comparison_operators(text) ==
    Replace(Replace(Replace(Replace(
    Replace(Replace(Replace(Replace(text,
        <<"FGT", "=">>, <<"GE">>),
        <<"FLT", "=">>, <<"LE">>),
        <<"FGT">>, <<"GE">>),
        <<"FLT">>, <<"LE">>),
        <<">", "=">>, <<"GE">>),
        <<"<", "=">>, <<"LE">>),
        <<">">>, <<"GE">>),
        <<"<">>, <<"LE">>)

normalize_text_prefix(prefix) ==
    The({ LET any(kws) == \E kw \in kws : Contains(low, kw)
          IN IF prefix = <<>> THEN <<>>
             ELSE IF any({ <<"Z_bu", "Z_xiao3", "Z_yu">>, <<"Z_bu", "Z_shao">>,
                           <<"Z_zhi", "Z_shao">>, <<"Z_bu", "Z_di1", "Z_yu">>,
                           <<"Z_da", "Z_yu", "Z_deng", "Z_yu">>, <<"GE", "0">> })
             THEN <<"GE">>
             ELSE IF any({ <<"Z_bu", "Z_da", "Z_yu">>, <<"Z_bu", "Z_chao", "Z_guo">>,
                           <<"Z_zui", "Z_duo">>, <<"Z_bu", "Z_gao", "Z_yu">>,
                           <<"Z_xiao3", "Z_yu", "Z_deng", "Z_yu">>, <<"LE", "0">> })
             THEN <<"LE">>
             ELSE IF any({ <<"Z_da", "Z_yu">>, <<"Z_chao", "Z_guo">>,
                           <<"Z_gao", "Z_yu">>, <<">">> })
             THEN <<"GE">>
             ELSE IF any({ <<"Z_xiao3", "Z_yu">>, <<"Z_di1", "Z_yu">>, <<"<">> })
             THEN <<"LE">>
             ELSE prefix
          : low \in {Strip(Lower(prefix))} })

IrrelevantKeywords ==
    { <<"Z_gong1", "Z_zuo", "Z_shi", "Z_jian">>, <<"Z_duan", "Z_dian">>,
      <<"Z_cao", "Z_zuo">>, <<"Z_xiang3", "Z_ying4">>, <<"Z_shua", "Z_xin">>,
      <<"Z_pin", "Z_lv">> }

is_relevant_data(text, parameter_name) ==
    \E text_lower \in {Lower(text)}, param_lower \in {Lower(parameter_name)} :
        IF text = <<>> \/ parameter_name = <<>> THEN TRUE
        \* SequenceMatcher(None, param_lower, text_lower).ratio() < 0.3
        ELSE IF 20 * Matches(param_lower, text_lower)
                  < 3 * (Len(param_lower) + Len(text_lower))
        THEN FALSE
        ELSE /\ \E words \in {Split(param_lower)} :
                   \E k \in 1..Len(words) :
                      Len(words[k]) > 1 /\ Contains(text_lower, words[k])
             /\ ~\E kw \in IrrelevantKeywords : Contains(text_lower, kw)

\* ------------------------------------------------------------------------
\* NumericProcessor.merge_numeric_values
\* ------------------------------------------------------------------------
PrefixLead == Whitespace \cup {"FCOLON", ":", "DUN", "Z_di", "DEG", "N", "o",
                               "-", "ENDASH", "EMDASH", "GE", "LE", ">", "<", "="}
PrefixTrail == {"GE", "LE", ">", "<", "=", "-", "FCOLON", ":"}

RECURSIVE DropTrail(_)
DropTrail(s) == IF s # <<>> /\ s[Len(s)] \in PrefixTrail
                THEN DropTrail(SubSeq(s, 1, Len(s) - 1)) ELSE s

\* the prefix candidate of one value (it has a digit): the text before the
\* first digit, operators rewritten, leading and trailing symbols removed
TextBeforeNum(val) ==
    The({ Strip(DropTrail(Strip(SubSeq(t1, RunOf(t1, 1, PrefixLead) + 1,
                                       Len(t1)))))
          : t1 \in {normalize_comparison_operators(Strip(SubSeq(val, 1,
                       (CHOOSE i \in 1..Len(val) :
                           /\ val[i] \in Digits
                           /\ \A j \in 1..(i - 1) : val[j] \notin Digits) - 1)))} })

\* the error-structure branch: the largest extracted number of all values,
\* with its unit (the first maximum)
ErrorStructResult(values) ==
    The({ IF toks = <<>> THEN NoResult
          ELSE The({ [value |-> FormatG(toks[k].value) \o toks[k].unit,
                      type |-> T_error_struct]
                     : k \in {CHOOSE k \in 1..Len(toks) :
                                 /\ \A j \in 1..Len(toks) :
                                      toks[j].value <= toks[k].value
                                 /\ \A j \in 1..(k - 1) :
                                      toks[j].value < toks[k].value} })
          : toks \in {Flatten([i \in 1..Len(values) |->
                                 extract_numeric_info(Strip(values[i]))])} })

\* the common text prefix of the values holding numbers, the parameter name
\* when none of them has one
CommonPrefix(withNums, parameter_name) ==
    The({ IF kept = <<>> THEN parameter_name
          ELSE MostCommon([i \in 1..Len(kept) |-> normalize_text_prefix(kept[i])])
          : kept \in {SelectSeq([i \in 1..Len(withNums) |->
                                   TextBeforeNum(withNums[i])],
                                LAMBDA t : t # <<>>)} })

\* the noise filter: with more than 3 distinct values (to 1 decimal) and a
\* minimum below half the median, values below half the median are dropped
NoiseFilter(process_list) ==
    The({ The({ IF /\ Cardinality({Round1(vals[i]) : i \in 1..Len(vals)}) > 3
                   /\ 2 * SeqMin(vals) < median_val
                THEN SelectSeq(process_list, LAMBDA n : 2 * n.value >= median_val)
                ELSE process_list
                : median_val \in {SortedAt(vals, Len(vals) \div 2)} })
          : vals \in {[i \in 1..Len(process_list) |-> process_list[i].value]} })

\* the threshold collapse: without a range majority, values within 10% of
\* the maximum of which two agree to 1 decimal collapse to the maximum
ThresholdCollapse(process_list, range_minority) ==
    The({ IF /\ range_minority
             /\ Len(process_list) > 1
             /\ ~(10 * (SeqMax(vals) - SeqMin(vals)) > SeqMax(vals))
             /\ Cardinality({Round1(vals[i]) : i \in 1..Len(vals)}) # Len(vals)
          THEN <<process_list[IndexOf(vals, SeqMax(vals))]>>
          ELSE process_list
          : vals \in {[i \in 1..Len(process_list) |-> process_list[i].value]} })

\* the result for the numbers kept: one value or a range, in the first unit
MergeResult(process_list, prefix) ==
    The({ IF units = <<>>
          THEN IF Cardinality({nums[i] : i \in 1..Len(nums)}) = 1
               THEN [value |-> IF prefix # <<>> THEN prefix \o FormatG(nums[1])
                               ELSE StrFloat(nums[1]),
                     type |-> T_exact_match]
               ELSE [value |-> prefix \o FormatG(SeqMin(nums)) \o <<"-">>
                                 \o FormatG(SeqMax(nums)),
                     type |-> T_numeric_range]
          ELSE IF ~\A k \in 2..Len(units) :
                     \/ Lower(units[k]) = Lower(units[1])
                     \/ convert_unit(Scale, units[k], units[1]) # NoneNum
          THEN NoResult
          ELSE The({ IF Cardinality({normalized_values[i] :
                                      i \in 1..Len(normalized_values)}) = 1
                     THEN [value |-> prefix \o FormatG(normalized_values[1])
                                       \o units[1],
                           type |-> T_unit_conversion]
                     ELSE [value |->
                             IF prefix # <<>>
                             THEN prefix \o FormatG(SeqMin(normalized_values))
                                    \o <<"-">> \o FormatG(SeqMax(normalized_values))
                                    \o units[1]
                             ELSE <<"(">> \o FormatG(SeqMin(normalized_values))
                                    \o <<"-">> \o FormatG(SeqMax(normalized_values))
                                    \o <<")">> \o units[1],
                           type |-> T_numeric_range]
                     : normalized_values \in {[i \in 1..Len(process_list) |->
                         The({ IF process_list[i].unit # <<>> /\ c # NoneNum
                               THEN c ELSE process_list[i].value
                               : c \in {convert_unit(process_list[i].value,
                                                     process_list[i].unit,
                                                     units[1])} })]} })
          : nums \in {[i \in 1..Len(process_list) |-> process_list[i].value]},
            units \in {SelectSeq([i \in 1..Len(process_list) |->
                                    process_list[i].unit],
                                 LAMBDA u : u # <<>>)} })

\* numeric_data_to_process before the noise filter: the numbers of every
\* value, or those of the range-like values when these are more than one
\* and at least half of the values
numeric_data_to_process(values) ==
    The({ The({ The({ IF /\ Len(range_like_data) > 1
                         /\ 2 * Len(range_like_data) >= Len(values)
                         /\ range_numeric # <<>>
                      THEN range_numeric ELSE Flatten(infos)
                      : range_numeric \in {Flatten(
                          [i \in 1..Len(range_like_data) |->
                             extract_numeric_info(range_like_data[i])])} })
                : range_like_data \in {SelectSeq(
                    SelectSeqIdx(values,
                      [i \in 1..Len(values) |-> infos[i] # <<>>], 1),
                    is_range_value)} })
          : infos \in {[i \in 1..Len(values) |-> extract_numeric_info(values[i])]} })

merge_numeric_values(values, parameter_name) ==
    The({ IF es # NoResult THEN es
          ELSE IF Flatten(infos) = <<>> THEN NoResult
          ELSE The({ MergeResult(
                       ThresholdCollapse(
                         NoiseFilter(numeric_data_to_process(values)),
                         \/ range_like_data = <<>>
                         \/ 2 * Len(range_like_data) < Len(values)),
                       CommonPrefix(withNums, parameter_name))
                     : withNums \in {SelectSeqIdx(values,
                         [i \in 1..Len(values) |-> infos[i] # <<>>], 1)},
                       range_like_data \in {SelectSeq(
                         SelectSeqIdx(values,
                           [i \in 1..Len(values) |-> infos[i] # <<>>], 1),
                         is_range_value)} })
          : es \in {IF \E i \in 1..Len(values) :
                          \/ Contains(values[i], <<"PM">>)
                          \/ Contains(values[i], <<"Z_wu4", "Z_cha">>)
                    THEN ErrorStructResult(values) ELSE NoResult},
            infos \in {[i \in 1..Len(values) |-> extract_numeric_info(values[i])]} })

\* ------------------------------------------------------------------------
\* FusionEngine.try_numeric_fusion
\* ------------------------------------------------------------------------
\* the distinct elements of seq in order of first occurrence (dict keys)
RECURSIVE DistinctInOrder(_)
DistinctInOrder(seq) ==
    IF seq = <<>> THEN <<>>
    ELSE The({ IF InSeq(seq[Len(seq)], rest) THEN rest
               ELSE Append(rest, seq[Len(seq)])
               : rest \in {DistinctInOrder(SubSeq(seq, 1, Len(seq) - 1))} })

UnitGateOffMutant(units) == TRUE

\* the global unit gate: with more than one distinct non-empty unit, every
\* other unit must convert to list(all_non_empty_units)[0].  Whatever
\* element the set iteration yields first, this holds exactly when all
\* units are registered in one category.
UnitsCompatible(units) ==
    \/ Cardinality(units) <= 1
    \/ \E first_unit \in {CHOOSE u \in units : TRUE} :
          \A u \in units \ {first_unit} :
             convert_unit(Scale, u, first_unit) # NoneNum

MergeAllUnitsMutant(originals, unit_keys, parameter_name) ==
    merge_numeric_values(originals, parameter_name)

\* the values grouped by the unit of their first number: one group is merged
\* whole, otherwise the largest group (the first of the largest) is merged
\* when it has two values or more
FuseUnitGroups(originals, unit_keys, parameter_name) ==
    The({ IF Len(groups) = 1 THEN merge_numeric_values(originals, parameter_name)
          ELSE IF Len(groups) = Len(originals) THEN NoResult
          ELSE The({ IF Len(groups[g]) >= 2
                     THEN merge_numeric_values(groups[g], parameter_name)
                     ELSE NoResult
                     : g \in {CHOOSE g \in 1..Len(groups) :
                                 /\ \A h \in 1..Len(groups) :
                                      Len(groups[h]) <= Len(groups[g])
                                 /\ \A h \in 1..(g - 1) :
                                      Len(groups[h]) < Len(groups[g])} })
          : groups \in {The({ [g \in 1..Len(group_keys) |->
                                 SelectSeqIdx(originals,
                                   [i \in 1..Len(originals) |->
                                      unit_keys[i] = group_keys[g]], 1)]
                              : group_keys \in {DistinctInOrder(unit_keys)} })} })

try_numeric_fusion(data, parameter_name) ==
    The({ IF relevant_data = <<>> THEN NoResult
          ELSE The({ The({ IF originals = <<>> THEN NoResult
                           ELSE IF ~UnitsCompatible(UNION {
                                     {Lower(numeric_infos[i][k].unit) :
                                        k \in {k \in 1..Len(numeric_infos[i]) :
                                                 numeric_infos[i][k].unit # <<>>}}
                                     : i \in 1..Len(numeric_infos)})
                           THEN NoResult
                           ELSE FuseUnitGroups(originals,
                                  [i \in 1..Len(originals) |->
                                     Lower(numeric_infos[i][1].unit)],
                                  parameter_name)
                           : originals \in {SelectSeqIdx(relevant_data,
                               [i \in 1..Len(relevant_data) |-> infos[i] # <<>>], 1)},
                             numeric_infos \in {SelectSeq(infos,
                               LAMBDA t : t # <<>>)} })
                     : infos \in {[i \in 1..Len(relevant_data) |->
                                    extract_numeric_info(relevant_data[i])]} })
          : relevant_data \in {SelectSeq(data,
              LAMBDA d : is_relevant_data(d, parameter_name))} })

\* ------------------------------------------------------------------------
\* FusionEngine._try_tolerance_fusion
\* ------------------------------------------------------------------------
\* length of the match of \d+\.?\d* at i
TolNumLenAt(s, i) ==
    The({ IF n = 0 THEN 0
          ELSE IF CharAt(s, i + n) = "." THEN n + 1 + RunOf(s, i + n + 1, Digits)
          ELSE n
          : n \in {RunOf(s, i, Digits)} })

TolSigns == {"PM", "+", "-", "/"}

\* start of the number of a match of pattern k at i (0: no match)
TolNumStart(s, i, k) ==
    The({ IF d > 0 /\ TolNumLenAt(s, d) > 0 THEN d ELSE 0
          : d \in {CASE k = 1 ->
                        IF CharAt(s, i) \in TolSigns
                        THEN SkipWs(s, i + RunOf(s, i, TolSigns)) ELSE 0
                   [] k = 2 ->
                        IF CharAt(s, i) \in {"LE", "<"}
                        THEN SkipWs(s, SkipWs(s, i + 1)
                                       + RunOf(s, SkipWs(s, i + 1), TolSigns))
                        ELSE 0
                   [] OTHER ->
                        IF StartsWithAt(s, i, <<"Z_wu4", "Z_cha">>)
                        THEN The({ SkipWs(s, a + RunOf(s, a, {"PM"}))
                                   : a \in {i + 2 + RunOfNot(s, i + 2,
                                                Digits \cup {"PM"})} })
                        ELSE 0} })

\* re.findall(pattern k, s): the matches <<value, unit>>, unit "%" by default
RECURSIVE TolMatches(_, _, _)
TolMatches(s, i, k) ==
    IF i > Len(s) THEN <<>>
    ELSE The({ IF d = 0 THEN TolMatches(s, i + 1, k)
               ELSE The({ The({ << <<ParseNum(SubSeq(s, d, u[1] - 1)),
                                     IF ul > 0 THEN SubSeq(s, u[2], u[2] + ul - 1)
                                     ELSE <<"%">> >> >>
                                \o TolMatches(s, u[2] + ul, k)
                                : ul \in {TolUnitLenAt(s, u[2])} })
                          : u \in {MatchAt(s, d + TolNumLenAt(s, d), <<"WS">>)} })
               : d \in {TolNumStart(s, i, k)} })

ToleranceFirstMatchMutant(data) ==
    The({ IF ms = <<>> THEN NoResult
          ELSE [value |-> <<"LE", "PM">> \o FormatG(ms[1][1]) \o ms[1][2],
                type |-> T_tolerance]
          : ms \in {Flatten([i \in 1..Len(data) |->
                               TolMatches(Strip(data[i]), 1, 1)
                               \o TolMatches(Strip(data[i]), 1, 2)
                               \o TolMatches(Strip(data[i]), 1, 3)])} })

_try_tolerance_fusion(data) ==
    The({ IF ms = <<>> THEN NoResult
          ELSE The({ [value |-> <<"LE", "PM">> \o FormatG(ms[k][1]) \o ms[k][2],
                      type |-> T_tolerance]
                     : k \in {CHOOSE k \in 1..Len(ms) :
                                 /\ \A j \in 1..Len(ms) : ms[j][1] <= ms[k][1]
                                 /\ \A j \in 1..(k - 1) : ms[j][1] < ms[k][1]} })
          : ms \in {Flatten([i \in 1..Len(data) |->
                               TolMatches(Strip(data[i]), 1, 1)
                               \o TolMatches(Strip(data[i]), 1, 2)
                               \o TolMatches(Strip(data[i]), 1, 3)])} })

\* ------------------------------------------------------------------------
\* TextProcessor.extract_keywords / has_keyword
\* jieba.analyse.extract_tags is modelled by its segmentation: the words of
\* the text are its runs of ASCII letters and digits and, in a run of
\* ideographs, the dictionary words found by longest match; words shorter
\* than two characters and stop words are dropped.  No modelled text has
\* more than top_k = 5 such words.
\* ------------------------------------------------------------------------
JiebaDict == { <<"Z_zhong", "Z_liang">>, <<"Z_she", "Z_bei">>,
               <<"Z_sao", "Z_miao">>, <<"Z_su", "Z_du">>, <<"Z_su", "Z_lv">>,
               <<"Z_pin", "Z_lv">>, <<"Z_gong", "Z_jin">>, <<"Z_shi", "Z_jian">>,
               <<"Z_wu4", "Z_cha">>, <<"Z_jing", "Z_du">> }
StopWords == { <<"t", "h", "e">>, <<"o", "f">>, <<"i", "s">>, <<"a", "n", "d">>,
               <<"t", "o">>, <<"i", "n">>, <<"o", "r">>, <<"a", "s">>, <<"a", "t">> }
AlNum == Digits \cup AsciiLetters

\* length of the longest dictionary word starting at s[i] (1: none)
DictWordLenAt(s, i) ==
    The({ IF lens = {} THEN 1 ELSE CHOOSE n \in lens : \A k \in lens : k <= n
          : lens \in {{Len(w) : w \in {w \in JiebaDict : StartsWithAt(s, i, w)}}} })

RECURSIVE CutWords(_, _)
CutWords(s, i) ==
    IF i > Len(s) THEN {}
    ELSE IF s[i] \in AlNum
    THEN {SubSeq(s, i, i + RunOf(s, i, AlNum) - 1)}
         \cup CutWords(s, i + RunOf(s, i, AlNum))
    ELSE IF s[i] \in CJK
    THEN {SubSeq(s, i, i + DictWordLenAt(s, i) - 1)}
         \cup CutWords(s, i + DictWordLenAt(s, i))
    ELSE CutWords(s, i + 1)

extract_keywords(text) ==
    {w \in CutWords(text, 1) : Len(w) >= 2 /\ Lower(w) \notin StopWords}

has_keyword(text, keywords) ==
    \E kw \in keywords : Contains(Lower(text), Lower(kw))

\* ------------------------------------------------------------------------
\* FusionEngine.try_semantic_fusion
\* ------------------------------------------------------------------------
\* MEDICAL_SYNONYMS in dict order: <<key, values>>
MEDICAL_SYNONYMS == <<
    << <<"Z_su", "Z_du">>, << <<"Z_su", "Z_lv">>, <<"s", "p", "e", "e", "d">> >> >>,
    << <<"Z_jing", "Z_du">>, << <<"Z_wu4", "Z_cha">> >> >> >>

try_semantic_fusion(data, parameter_name) ==
    The({ IF hits = {} THEN NoResult
          ELSE The({ The({ IF Len(matched_items) >= 2
                           THEN [value |-> MostCommon(matched_items),
                                 type |-> T_semantic_match]
                           ELSE IF kwHits # {}
                           THEN [value |-> data[CHOOSE i \in kwHits :
                                                  \A h \in kwHits : i <= h],
                                 type |-> T_semantic_match]
                           ELSE NoResult
                           : matched_items \in {SelectSeq(data, LAMBDA item :
                               \E k \in 1..Len(synonyms) :
                                  Contains(item, synonyms[k]))},
                             kwHits \in {{i \in 1..Len(data) :
                               has_keyword(parameter_name,
                                           extract_keywords(data[i]))}} })
                     : synonyms \in {The({ <<entry[1]>> \o entry[2]
                         : entry \in {MEDICAL_SYNONYMS[
                             CHOOSE e \in hits : \A h \in hits : e <= h]} })} })
          : hits \in {{e \in 1..Len(MEDICAL_SYNONYMS) :
                         \/ Contains(parameter_name, MEDICAL_SYNONYMS[e][1])
                         \/ InSeq(parameter_name, MEDICAL_SYNONYMS[e][2])}} })

\* ------------------------------------------------------------------------
\* FusionEngine.process_row
\* ------------------------------------------------------------------------
\* the cleaning condition of one vendor cell
KeepSentinelMutant(x) == x # NoneVal /\ Strip(x) # <<>>

IsValid(x) == x # NoneVal /\ Strip(x) # <<>> /\ Strip(x) \notin NEGATIVE_WORDS

\* valid_data
NoTrimMutant(vendor_data) == SelectSeq(vendor_data, IsValid)

valid_data(vendor_data) ==
    The({ [i \in 1..Len(kept) |-> Strip(kept[i])]
          : kept \in {SelectSeq(vendor_data, IsValid)} })

\* the outcome of one call: the returned pair, the statistics counter that
\* is incremented ("none" when the call increments no counter) and the
\* strategies run, in order
Outcome(value, type, stat, tried) ==
    [value |-> value, type |-> type, stat |-> stat, tried |-> tried]

\* the gate of the numeric strategies (CONFIG['unit_conversion'] is True)
NumericGate(data) ==
    /\ \A i \in 1..Len(data) : is_numeric(data[i])
    /\ ~\E i \in 1..Len(data) : has_model_keywords(data[i])
    /\ ~\E i \in 1..Len(data) : is_dimension_specification(data[i])
    /\ ~\E i \in 1..Len(data) : is_error_tolerance(data[i])

ToleranceGate(data, parameter_name) ==
    /\ \E i \in 1..Len(data) : is_error_tolerance(data[i])
    /\ Contains(parameter_name, <<"Z_wu4", "Z_cha">>)

MediumBeforeHighMutant(data, parameter_name, tried) ==
    The({ IF medium # NoResult
          THEN Outcome(_normalize_comparison_operators(medium.value),
                       T_medium_similarity, "medium_similarity",
                       tried \o <<"MediumSimilarity">>)
          ELSE The({ IF high # NoResult
                     THEN Outcome(_normalize_comparison_operators(high.value),
                                  high.type, "high_similarity",
                                  tried \o <<"MediumSimilarity", "HighSimilarity">>)
                     ELSE Outcome(handle_conflict(data), T_manual_review,
                                  "manual_review",
                                  tried \o <<"MediumSimilarity", "HighSimilarity",
                                             "ConflictResolution">>)
                     : high \in {try_similarity_fusion(data, HighThresholdPercent)} })
          : medium \in {try_similarity_fusion(data, MediumThresholdPercent)} })

\* the chain after the numeric strategies
TextChain(data, parameter_name, tried) ==
    The({ IF high # NoResult
          THEN Outcome(_normalize_comparison_operators(high.value), high.type,
                       "high_similarity", tried \o <<"HighSimilarity">>)
          ELSE The({ IF medium # NoResult
                     THEN Outcome(_normalize_comparison_operators(medium.value),
                                  T_medium_similarity, "medium_similarity",
                                  tried \o <<"HighSimilarity", "MediumSimilarity">>)
                     ELSE The({ IF semantic # NoResult
                           THEN Outcome(_normalize_comparison_operators(
                                          semantic.value),
                                        semantic.type, "semantic_match",
                                        tried \o <<"HighSimilarity", "MediumSimilarity", "Semantic">>)
                           ELSE Outcome(handle_conflict(data), T_manual_review,
                                        "manual_review",
                                        tried \o <<"HighSimilarity", "MediumSimilarity", "Semantic",
                                                   "ConflictResolution">>)
                           : semantic \in {try_semantic_fusion(data,
                                                               parameter_name)} })
                     : medium \in {try_similarity_fusion(data, MediumThresholdPercent)} })
          : high \in {try_similarity_fusion(data, HighThresholdPercent)} })

\* the chain after exact matching
NumericChain(data, parameter_name, tried) ==
    IF ToleranceGate(data, parameter_name)
    THEN The({ IF tol # NoResult
               THEN Outcome(tol.value, tol.type, "none", tried \o <<"Tolerance">>)
               ELSE TextChain(data, parameter_name, tried \o <<"Tolerance">>)
               : tol \in {_try_tolerance_fusion(data)} })
    ELSE IF NumericGate(data)
    THEN The({ IF num # NoResult
               THEN Outcome(_normalize_comparison_operators(num.value), num.type,
                            \* `'fanwei' in fusion_type`
                            IF num.type = T_numeric_range
                            THEN "numeric_range" ELSE "unit_conversion",
                            tried \o <<"Numeric">>)
               ELSE TextChain(data, parameter_name, tried \o <<"Numeric">>)
               : num \in {try_numeric_fusion(data, parameter_name)} })
    ELSE TextChain(data, parameter_name, tried)

process_row(parameter_name, vendor_data) ==
    The({ IF Len(data) = 0
          THEN Outcome(InsufficientMarker, T_insufficient_data, "insufficient_data",
                       <<"Clean">>)
          ELSE IF Len(data) = 1
          THEN Outcome(_normalize_comparison_operators(data[1]), T_single_supplier,
                       "single_supplier", <<"Clean">>)
          ELSE The({ IF exact # NoResult
                     THEN Outcome(_normalize_comparison_operators(exact.value),
                                  exact.type, "exact_match",
                                  <<"Clean", "ExactMatch">>)
                     ELSE NumericChain(data, parameter_name,
                                       <<"Clean", "ExactMatch">>)
                     : exact \in {try_exact_match(data)} })
          : data \in {valid_data(vendor_data)} })

\* ------------------------------------------------------------------------
\* PARAM_RULES and FusionEngine.get_rule_for_parameter
\* ------------------------------------------------------------------------
\* CONFIG['numeric_tolerance']
NumericTolerance == 500

\* one entry of PARAM_RULES: its key and the fields the program reads
\* (type, tolerance, separator, merge_mode); a field the entry does not
\* have is NoneNum (tolerance) or NoneVal (separator) or ""
Rule(key, type, tolerance, separator, merge_mode) ==
    [key |-> key, type |-> type, tolerance |-> tolerance,
     separator |-> separator, merge_mode |-> merge_mode]

\* PARAM_RULES in dict order; tolerances are scaled by Scale
PARAM_RULES == <<
    Rule(<<"Z_dian", "Z_chi", "Z_rong", "Z_liang">>, "numeric", 500, NoneVal, ""),
    Rule(<<"Z_bo", "Z_chang">>, "numeric", 200, NoneVal, ""),
    Rule(<<"Z_gong2", "Z_lv">>, "numeric", 1000, NoneVal, ""),
    Rule(<<"Z_dian", "Z_ya">>, "numeric", 500, NoneVal, ""),
    Rule(<<"Z_pin", "Z_lv">>, "numeric", 500, NoneVal, ""),
    Rule(<<"Z_rong", "Z_liang">>, "numeric", 500, NoneVal, ""),
    Rule(<<"Z_zhong", "Z_liang">>, "numeric", 1000, NoneVal, ""),
    Rule(<<"Z_chi3", "Z_cun">>, "dimension", NoneNum, NoneVal, ""),
    Rule(<<"Z_wai", "Z_xing", "Z_chi3", "Z_cun">>, "dimension", NoneNum, NoneVal, ""),
    Rule(<<"Z_tan", "Z_tou", "Z_lei", "Z_xing2">>, "text", NoneNum, NoneVal, ""),
    Rule(<<"Z_xian", "Z_shi4", "Z_ping">>, "text", NoneNum, NoneVal, ""),
    Rule(<<"Z_cai2", "Z_zhi4">>, "text", NoneNum, NoneVal, ""),
    Rule(<<"Z_xing2", "Z_hao">>, "text", NoneNum, NoneVal, ""),
    Rule(<<"Z_jie", "Z_kou">>, "multi_value", NoneNum, <<"TIMES">>, "max"),
    Rule(<<"Z_fu4", "Z_jia", "Z_gong2", "Z_neng">>, "multi_value", NoneNum, <<"/">>,
         "union"),
    Rule(<<"Z_tan", "Z_tou">>, "multi_value", NoneNum, <<"/">>, "union") >>

\* the default rule {'type': 'auto'}
AutoRule == Rule(NoneVal, "auto", NoneNum, NoneVal, "")

FuzzyFirstMutant(param_name) ==
    The({ IF fuzzy # {}
          THEN PARAM_RULES[CHOOSE i \in fuzzy : \A j \in fuzzy : i <= j]
          ELSE AutoRule
          : fuzzy \in {{i \in 1..Len(PARAM_RULES) :
                          \/ Contains(param_name, PARAM_RULES[i].key)
                          \/ Contains(PARAM_RULES[i].key, param_name)}} })

\* get_rule_for_parameter(param_name): the entry under the exact key, else
\* the first entry in dict order whose key contains the name or is contained
\* in it, else the default rule
get_rule_for_parameter(param_name) ==
    The({ IF exact # {} THEN PARAM_RULES[The(exact)]
          ELSE IF fuzzy # {}
          THEN PARAM_RULES[CHOOSE i \in fuzzy : \A j \in fuzzy : i <= j]
          ELSE AutoRule
          : exact \in {{i \in 1..Len(PARAM_RULES) : PARAM_RULES[i].key = param_name}},
            fuzzy \in {{i \in 1..Len(PARAM_RULES) :
                          \/ Contains(param_name, PARAM_RULES[i].key)
                          \/ Contains(PARAM_RULES[i].key, param_name)}} })

\* ------------------------------------------------------------------------
\* ParameterParser
\* ------------------------------------------------------------------------
\* self.separators: [，,；;、\n]
ParserSeparators == {"FCOMMA", ",", "FSEMI", ";", "DUN", "NL"}

\* self.comparison_symbols: [≥≤><=\-~]
ComparisonSymbols == {"GE", "LE", ">", "<", "=", "-", "~"}

\* param_type_keywords in dict order: <<type, keywords>>
param_type_keywords == <<
    <<<<"Z_cao", "Z_zuo", "Z_xi", "Z_tong">>,
      {<<"Z_cao", "Z_zuo", "Z_xi", "Z_tong">>, <<"Z_xi", "Z_tong">>,
       <<"Z_xi", "Z_tong", "Z_ban", "Z_ben">>, <<"O", "S">>,
       <<"Z_cao", "Z_zuo">>}>>,
    <<<<"C", "P", "U">>,
      {<<"C", "P", "U">>, <<"Z_chu3", "Z_li", "Z_qi">>,
       <<"Z_zhong1", "Z_yang", "Z_chu3", "Z_li", "Z_qi">>,
       <<"Z_ku", "Z_rui">>, <<"Z_ying", "Z_te", "Z_er">>,
       <<"I", "n", "t", "e", "l">>, <<"A", "M", "D">>,
       <<"Z_rui4", "Z_long">>, <<"R", "y", "z", "e", "n">>}>>,
    <<<<"Z_nei", "Z_cun2">>,
      {<<"Z_nei", "Z_cun2">>, <<"R", "A", "M">>,
       <<"Z_nei", "Z_cun2", "Z_da", "Z_xiao3">>,
       <<"Z_cun2", "Z_chu2", "Z_nei", "Z_cun2">>}>>,
    <<<<"Z_cun2", "Z_chu2">>,
      {<<"Z_cun2", "Z_chu2">>, <<"Z_ying2", "Z_pan">>,
       <<"Z_gu", "Z_tai", "Z_ying2", "Z_pan">>, <<"S", "S", "D">>,
       <<"H", "D", "D">>, <<"Z_ci", "Z_pan">>, <<"M", ".", "2">>,
       <<"N", "V", "M", "e">>}>>,
    <<<<"Z_xian", "Z_shi4", "Z_qi">>,
      {<<"Z_xian", "Z_shi4", "Z_qi">>,
       <<"Z_xian", "Z_shi4", "Z_ping">>, <<"Z_ping", "Z_mu">>,
       <<"Z_ying", "Z_cun">>, <<"Z_fen", "Z_bian", "Z_lv">>,
       <<"Z_ye", "Z_jing1", "Z_ping">>, <<"T", "F", "T">>}>>,
    <<<<"Z_xian", "Z_ka">>,
      {<<"Z_xian", "Z_ka">>, <<"G", "P", "U">>,
       <<"Z_du2", "Z_li4", "Z_xian", "Z_ka">>,
       <<"Z_ji", "Z_cheng", "Z_xian", "Z_ka">>}>>,
    <<<<"Z_wang", "Z_luo">>,
      {<<"Z_wang", "Z_luo">>, <<"Z_wang", "Z_kou">>,
       <<"R", "J", "4", "5">>, <<"Z_yi", "Z_tai4", "Z_wang">>}>>,
    <<<<"Z_jie", "Z_kou">>,
      {<<"Z_jie", "Z_kou">>, <<"U", "S", "B">>,
       <<"H", "D", "M", "I">>,
       <<"D", "i", "s", "p", "l", "a", "y", "P", "o", "r", "t">>,
       <<"T", "h", "u", "n", "d", "e", "r", "b", "o", "l", "t">>}>>,
    <<<<"Z_dian", "Z_yuan">>,
      {<<"Z_dian", "Z_yuan">>, <<"Z_gong2", "Z_lv">>, <<"W">>,
       <<"k", "W">>}>>,
    <<<<"Z_leng", "Z_que">>,
      {<<"Z_san", "Z_re">>, <<"Z_leng", "Z_que">>,
       <<"Z_feng", "Z_leng">>, <<"Z_ye", "Z_leng">>}>> >>

\* re.split(self.separators, text)
RECURSIVE SplitSep(_)
SplitSep(text) ==
    IF \A i \in 1..Len(text) : text[i] \notin ParserSeparators THEN <<text>>
    ELSE The({ <<SubSeq(text, 1, i - 1)>> \o SplitSep(SubSeq(text, i + 1, Len(text)))
               : i \in {CHOOSE i \in 1..Len(text) :
                           /\ text[i] \in ParserSeparators
                           /\ \A j \in 1..(i - 1) : text[j] \notin ParserSeparators} })

\* _identify_param_type(content): the first type in dict order one of whose
\* keywords, lower-cased, occurs in the lower-cased content
_identify_param_type(content) ==
    The({ IF hits = {} THEN <<"Z_qi2", "Z_ta">>
          ELSE param_type_keywords[CHOOSE t \in hits : \A u \in hits : t <= u][1]
          : hits \in {{t \in 1..Len(param_type_keywords) :
                         \E keyword \in param_type_keywords[t][2] :
                            Contains(Lower(content), Lower(keyword))}} })

\* one segment: the leading run of comparison symbols and the rest
\* (re.match(r'^([≥≤><=\-~]+)\s*(.*?)$', segment)), classified
ParseSegment(segment) ==
    The({ The({ [param_type |-> _identify_param_type(content),
                 original |-> segment,
                 comparison |-> SubSeq(segment, 1, n),
                 content |-> content]
                : content \in {IF n = 0 THEN segment
                               ELSE Strip(SubSeq(segment, n + 1, Len(segment)))} })
          : n \in {RunOf(segment, 1, ComparisonSymbols)} })

\* parse_integrated_params(text): the segments with a non-empty content
parse_integrated_params(text) ==
    IF text = <<>> THEN <<>>
    ELSE The({ The({ SelectSeq(parsed, LAMBDA item : item.content # <<>>)
                     : parsed \in {[k \in 1..Len(segments) |->
                                      ParseSegment(Strip(segments[k]))]} })
               : segments \in {SplitSep(Strip(text))} })

\* group_by_param_type(parsed_list): the types in order of first appearance,
\* each with its items in order
group_by_param_type(parsed_list) ==
    The({ [g \in 1..Len(types) |->
             [param_type |-> types[g],
              items |-> SelectSeq(parsed_list,
                                  LAMBDA item : item.param_type = types[g])]]
          : types \in {DistinctInOrder([k \in 1..Len(parsed_list) |->
                                          parsed_list[k].param_type])} })

\* ------------------------------------------------------------------------
\* ParameterPreprocessor
\* ------------------------------------------------------------------------
\* param_type_mapping: <<parameter name, parser type>>
param_type_mapping == <<
    <<<<"C", "P", "U">>, <<"C", "P", "U">>>>,
    <<<<"Z_nei", "Z_cun2">>, <<"Z_nei", "Z_cun2">>>>,
    <<<<"Z_ying2", "Z_pan">>, <<"Z_cun2", "Z_chu2">>>>,
    <<<<"Z_cun2", "Z_chu2">>, <<"Z_cun2", "Z_chu2">>>>,
    <<<<"Z_xian", "Z_shi4", "Z_qi">>, <<"Z_xian", "Z_shi4", "Z_qi">>>>,
    <<<<"Z_xian", "Z_ka">>, <<"Z_xian", "Z_ka">>>>,
    <<<<"Z_cao", "Z_zuo", "Z_xi", "Z_tong">>, <<"Z_cao", "Z_zuo", "Z_xi", "Z_tong">>>>,
    <<<<"Z_dian", "Z_yuan">>, <<"Z_dian", "Z_yuan">>>>,
    <<<<"Z_san", "Z_re">>, <<"Z_leng", "Z_que">>>> >>

\* is_integrated_params(text): at least two of , ， 、
is_integrated_params(text) ==
    text # NoneVal /\ Count(text, ",") + Count(text, "FCOMMA") + Count(text, "DUN") >= 2

\* self.param_type_mapping.get(parameter_name, [parameter_name])[0]
TargetType(parameter_name) ==
    The({ IF hits = {} THEN parameter_name ELSE param_type_mapping[The(hits)][2]
          : hits \in {{k \in 1..Len(param_type_mapping) :
                         param_type_mapping[k][1] = parameter_name}} })

LastItemMutant(grouped_params, parameter_name) ==
    IF parameter_name = <<>> THEN NoneVal
    ELSE The({
        The({ IF exact # {}
              THEN grouped_params[The(exact)]
                     .items[Len(grouped_params[The(exact)].items)].content
              ELSE IF fuzzy # {}
              THEN grouped_params[CHOOSE g \in fuzzy : \A h \in fuzzy : g <= h]
                     .items[1].content
              ELSE NoneVal
              : exact \in {{g \in 1..Len(grouped_params) :
                              grouped_params[g].param_type = target_type}},
                fuzzy \in {{g \in 1..Len(grouped_params) :
                              \/ Contains(Lower(grouped_params[g].param_type),
                                          Lower(target_type))
                              \/ Contains(Lower(target_type),
                                          Lower(grouped_params[g].param_type))}} })
        : target_type \in {TargetType(parameter_name)} })

\* _extract_relevant_value(grouped_params, parameter_name): the content of
\* the first item of the group of the target type, else of the first group
\* whose type contains the target type or is contained in it ignoring case,
\* else NoneVal
_extract_relevant_value(grouped_params, parameter_name) ==
    IF parameter_name = <<>> THEN NoneVal
    ELSE The({
        The({ IF exact # {} THEN grouped_params[The(exact)].items[1].content
              ELSE IF fuzzy # {}
              THEN grouped_params[CHOOSE g \in fuzzy : \A h \in fuzzy : g <= h]
                     .items[1].content
              ELSE NoneVal
              : exact \in {{g \in 1..Len(grouped_params) :
                              grouped_params[g].param_type = target_type}},
                fuzzy \in {{g \in 1..Len(grouped_params) :
                              \/ Contains(Lower(grouped_params[g].param_type),
                                          Lower(target_type))
                              \/ Contains(Lower(target_type),
                                          Lower(grouped_params[g].param_type))}} })
        : target_type \in {TargetType(parameter_name)} })

\* preprocess(value, parameter_name): the relevant part of an integrated
\* cell, else the value itself
preprocess(value, parameter_name) ==
    IF value = NoneVal \/ Strip(value) = <<>> THEN value
    ELSE IF ~is_integrated_params(value) THEN value
    ELSE The({ IF relevant_value # NoneVal /\ relevant_value # <<>>
               THEN relevant_value ELSE value
               : relevant_value \in
                   {_extract_relevant_value(
                        group_by_param_type(parse_integrated_params(value)),
                        parameter_name)} })

\* ------------------------------------------------------------------------
\* NumericProcessor.parse_multi_value
\* ------------------------------------------------------------------------
\* str.upper() on one character
UpperChar(c) ==
    IF c \in LowerLetters
    THEN UpperSeq[CHOOSE i \in 1..26 : LowerSeq[i] = c]
    ELSE c

Upper(s) == [i \in 1..Len(s) |-> UpperChar(s[i])]

\* sys.int_info.default_max_str_digits: int(str) raises ValueError for a
\* longer digit string
IntMaxStrDigits == 4300

\* a dict as the sequence of its <<key, value>> items in insertion order,
\* built from the assignments result[key] = value in order
DictOf(assignments) ==
    The({ [k \in 1..Len(keys) |->
             <<keys[k],
               assignments[CHOOSE a \in 1..Len(assignments) :
                              /\ assignments[a][1] = keys[k]
                              /\ \A b \in (a + 1)..Len(assignments) :
                                    assignments[b][1] # keys[k]][2]>>]
          : keys \in {DistinctInOrder([a \in 1..Len(assignments) |->
                                         assignments[a][1]])} })

\* text.split('/')
RECURSIVE SplitSlash(_)
SplitSlash(text) ==
    IF ~InSeq("/", text) THEN <<text>>
    ELSE The({ <<SubSeq(text, 1, i - 1)>> \o SplitSlash(SubSeq(text, i + 1, Len(text)))
               : i \in {IndexOf(text, "/")} })

\* the matches of multi_value_pattern ([A-Za-z一-龥]+)×?(\d+) from i on:
\* <<key, digits>> for every maximal run of letters followed by an optional
\* × and a run of digits
RECURSIVE MultiValueMatches(_, _)
MultiValueMatches(text, i) ==
    IF i > Len(text) THEN <<>>
    ELSE The({
        IF n = 0 THEN MultiValueMatches(text, i + 1)
        ELSE The({
            The({ IF d = 0 THEN MultiValueMatches(text, i + n)
                  ELSE << <<SubSeq(text, i, i + n - 1), SubSeq(text, p, p + d - 1)>> >>
                       \o MultiValueMatches(text, p + d)
                  : d \in {RunOf(text, p, Digits)} })
            : p \in {IF CharAt(text, i + n) = "TIMES" THEN i + n + 1 ELSE i + n} })
        : n \in {RunOf(text, i, AsciiLetters \cup CJK)} })

\* parse_multi_value(text, separator): error is "ValueError" when int()
\* raises, else "" and items is the dict
parse_multi_value(text, separator) ==
    IF separator = <<"/">> \/ InSeq("/", text)
    THEN The({ [error |-> "",
                items |-> DictOf([k \in 1..Len(clean) |-> <<Upper(clean[k]), 1>>])]
               : clean \in {The({ SelectSeq(
                     [k \in 1..Len(parts) |->
                        Strip(SelectSeq(Strip(parts[k]),
                                        LAMBDA c : c \notin Digits \cup {"TIMES"}))],
                     LAMBDA part : part # <<>>)
                     : parts \in {SplitSlash(text)} })} })
    ELSE The({ IF \E k \in 1..Len(matches) : Len(matches[k][2]) > IntMaxStrDigits
               THEN [error |-> "ValueError", items |-> <<>>]
               ELSE [error |-> "",
                     items |-> DictOf([k \in 1..Len(matches) |->
                                         <<Upper(matches[k][1]), IntOf(matches[k][2])>>])]
               : matches \in {MultiValueMatches(text, 1)} })

\* ------------------------------------------------------------------------
\* MedicalDeviceFusion: supplier compliance
\* ------------------------------------------------------------------------
\* semantic_equivalents: <<key, equivalents>>
semantic_equivalents == {
    <<<<"Z_er4", "Z_wei2">>,
      {<<"2", "D">>, <<"2", "d">>,
       <<"t", "w", "o", "-", "d", "i", "m", "e", "n", "s", "i", "o", "n", "a", "l">>,
       <<"Z_er4", "Z_wei2", "Z_kong", "Z_jian">>}>>,
    <<<<"2", "D">>,
      {<<"Z_er4", "Z_wei2">>, <<"2", "d">>,
       <<"t", "w", "o", "-", "d", "i", "m", "e", "n", "s", "i", "o", "n", "a", "l">>}>>,
    <<<<"2", "d">>,
      {<<"Z_er4", "Z_wei2">>, <<"2", "D">>,
       <<"t", "w", "o", "-", "d", "i", "m", "e", "n", "s", "i", "o", "n", "a", "l">>}>>,
    <<<<"Z_san1", "Z_wei2">>,
      {<<"3", "D">>, <<"3", "d">>,
       <<"t", "h", "r", "e", "e", "-", "d", "i", "m", "e", "n", "s", "i", "o", "n", "a", "l">>,
       <<"Z_san1", "Z_wei2", "Z_kong", "Z_jian">>}>>,
    <<<<"3", "D">>,
      {<<"Z_san1", "Z_wei2">>, <<"3", "d">>,
       <<"t", "h", "r", "e", "e", "-", "d", "i", "m", "e", "n", "s", "i", "o", "n", "a", "l">>}>>,
    <<<<"3", "d">>,
      {<<"Z_san1", "Z_wei2">>, <<"3", "D">>,
       <<"t", "h", "r", "e", "e", "-", "d", "i", "m", "e", "n", "s", "i", "o", "n", "a", "l">>}>>,
    <<<<"Z_cai", "Z_se">>,
      {<<"Z_cai", "Z_ping">>, <<"c", "o", "l", "o", "r">>,
       <<"C", "o", "l", "o", "r">>, <<"Z_quan", "Z_cai">>}>>,
    <<<<"Z_hei", "Z_bai">>,
      {<<"Z_dan", "Z_se">>,
       <<"m", "o", "n", "o", "c", "h", "r", "o", "m", "e">>,
       <<"b", "l", "a", "c", "k", " ", "a", "n", "d", " ", "w", "h", "i", "t", "e">>,
       <<"Z_hui", "Z_du">>}>>,
    <<<<"Z_chu", "Z_mo">>,
      {<<"Z_chu", "Z_mo", "Z_ping">>, <<"t", "o", "u", "c", "h">>,
       <<"t", "o", "u", "c", "h", "s", "c", "r", "e", "e", "n">>,
       <<"Z_chu", "Z_kong4">>}>>,
    <<<<"Z_fei", "Z_chu", "Z_mo">>,
      {<<"Z_pu", "Z_tong1", "Z_ping">>,
       <<"n", "o", "n", "-", "t", "o", "u", "c", "h">>,
       <<"Z_fei", "Z_chu", "Z_kong4">>}>>,
    <<<<"Z_wu", "Z_xian4">>,
      {<<"w", "i", "r", "e", "l", "e", "s", "s">>,
       <<"W", "i", "F", "i">>, <<"W", "I", "F", "I">>,
       <<"W", "i", "-", "F", "i">>, <<"Z_lan", "Z_ya2">>}>>,
    <<<<"Z_you", "Z_xian4">>,
      {<<"w", "i", "r", "e", "d">>,
       <<"Z_you", "Z_xian4", "Z_lian", "Z_jie">>}>>,
    <<<<"Z_hao2", "Z_mi">>,
      {<<"m", "m">>,
       <<"m", "i", "l", "l", "i", "m", "e", "t", "e", "r">>}>>,
    <<<<"Z_li2", "Z_mi">>,
      {<<"c", "m">>,
       <<"c", "e", "n", "t", "i", "m", "e", "t", "e", "r">>}>>,
    <<<<"Z_mi">>,
      {<<"m">>, <<"m", "e", "t", "e", "r">>}>>,
    <<<<"Z_qian", "Z_ke">>,
      {<<"k", "g">>, <<"k", "i", "l", "o", "g", "r", "a", "m">>}>>,
    <<<<"Z_ke">>,
      {<<"g">>, <<"g", "r", "a", "m">>}>>,
    <<<<"Z_sheng">>,
      {<<"L">>, <<"l", "i", "t", "e", "r">>}>>,
    <<<<"Z_hao2", "Z_sheng">>,
      {<<"m", "L">>, <<"m", "l">>,
       <<"m", "i", "l", "l", "i", "l", "i", "t", "e", "r">>}>> }

\* _check_semantic_equivalent(text1, text2)
_check_semantic_equivalent(text1, text2) ==
    \E text1_lower \in {Lower(text1)}, text2_lower \in {Lower(text2)} :
        \/ text1_lower = text2_lower
        \/ \E entry \in semantic_equivalents :
              \E equiv \in entry[2] :
                 \/ /\ Contains(text1_lower, Lower(equiv))
                    /\ Contains(text2_lower, Lower(entry[1]))
                 \/ /\ Contains(text2_lower, Lower(equiv))
                    /\ Contains(text1_lower, Lower(entry[1]))

\* the characters of [≥≤><=＞＜]
ComplianceOperators == {"GE", "LE", ">", "<", "=", "FGT", "FLT"}

\* re.search(r'[≥≤><=＞＜]+\s*(\d+\.?\d*)', fused_str): the text of group 1
\* of the leftmost match, <<>> without a match
ComparisonThreshold(fused_str) ==
    The({ IF starts = {} THEN <<>>
          ELSE The({ The({ SubSeq(fused_str, p, p + d - 1
                                    + (IF CharAt(fused_str, p + d) = "."
                                       THEN 1 + RunOf(fused_str, p + d + 1, Digits)
                                       ELSE 0))
                           : d \in {RunOf(fused_str, p, Digits)} })
                     : p \in {The({ SkipWs(fused_str,
                                            i + RunOf(fused_str, i, ComplianceOperators))
                                     : i \in {CHOOSE i \in starts :
                                                \A j \in starts : i <= j} })} })
          : starts \in {{i \in 1..Len(fused_str) :
                           /\ fused_str[i] \in ComplianceOperators
                           /\ CharAt(fused_str,
                                     SkipWs(fused_str,
                                            i + RunOf(fused_str, i, ComplianceOperators)))
                                \in Digits}} })

\* abs(a - b) / b <= tolerance with error 0 for b = 0; a, b and tolerance
\* are scaled by Scale
WithinTolerance(a, b, tolerance) ==
    IF b <= 0 THEN TRUE
    ELSE (IF a >= b THEN a - b ELSE b - a)
           <= tolerance * (b \div Scale) + (tolerance * (b % Scale)) \div Scale

\* _evaluate_numeric_compliance(supplier_str, fused_str, rule)
_evaluate_numeric_compliance(supplier_str, fused_str, rule) ==
    The({
        IF supplier_nums = <<>> \/ fused_nums = <<>> THEN "gray"
        ELSE The({
            IF threshold # <<>>
            THEN The({
                IF InSeq("GE", operator) \/ Contains(operator, <<">", "=">>)
                   \/ Contains(operator, <<"FGT", "=">>)
                THEN (IF supplier_val >= threshold_val THEN "blue" ELSE "none")
                ELSE IF InSeq("LE", operator) \/ Contains(operator, <<"<", "=">>)
                        \/ Contains(operator, <<"FLT", "=">>)
                THEN (IF supplier_val <= threshold_val THEN "blue" ELSE "none")
                ELSE IF InSeq(">", operator) \/ InSeq("FGT", operator)
                THEN (IF supplier_val > threshold_val THEN "blue" ELSE "none")
                ELSE IF InSeq("<", operator) \/ InSeq("FLT", operator)
                THEN (IF supplier_val < threshold_val THEN "blue" ELSE "none")
                ELSE (IF WithinTolerance(supplier_val, threshold_val, tolerance)
                      THEN "blue" ELSE "none")
                : operator \in {The({ SubSeq(fused_str, i,
                                             i + RunOf(fused_str, i, ComplianceOperators) - 1)
                                      : i \in {CHOOSE i \in 1..Len(fused_str) :
                                                 /\ fused_str[i] \in ComplianceOperators
                                                 /\ \A j \in 1..(i - 1) :
                                                      fused_str[j] \notin ComplianceOperators} })},
                  threshold_val \in {ParseNum(threshold)} })
            ELSE IF InSeq("-", fused_str) /\ Len(fused_nums) >= 2
            THEN The({ IF SeqMin(vals) <= supplier_val /\ supplier_val <= SeqMax(vals)
                       THEN "blue" ELSE "none"
                       : vals \in {[k \in 1..Len(fused_nums) |-> fused_nums[k].value]} })
            ELSE (IF WithinTolerance(supplier_val, fused_nums[1].value, tolerance)
                  THEN "blue" ELSE "none")
            : supplier_val \in {supplier_nums[1].value},
              tolerance \in {IF rule.tolerance = NoneNum THEN NumericTolerance
                             ELSE rule.tolerance},
              threshold \in {ComparisonThreshold(fused_str)} })
        : supplier_nums \in {extract_numeric_info(supplier_str)},
          fused_nums \in {extract_numeric_info(fused_str)} })

\* dict.get(key, 0) on the items of a parsed multi-value
DictGet(items, key) ==
    IF \E k \in 1..Len(items) : items[k][1] = key
    THEN items[CHOOSE k \in 1..Len(items) : items[k][1] = key][2]
    ELSE 0

\* what an evaluation gives: the colour it returns, or the exception it
\* raises (error # "")
Colour(color) == [error |-> "", color |-> color]
Raised(error) == [error |-> error, color |-> ""]

\* _evaluate_multi_value_compliance(supplier_str, fused_str, rule)
_evaluate_multi_value_compliance(supplier_str, fused_str, rule) ==
    The({ The({
            IF supplier_dict.error # "" THEN Raised(supplier_dict.error)
            ELSE The({
                IF fused_dict.error # "" THEN Raised(fused_dict.error)
                ELSE IF supplier_dict.items = <<>> \/ fused_dict.items = <<>>
                THEN Colour("gray")
                ELSE IF \E k \in 1..Len(fused_dict.items) :
                           DictGet(supplier_dict.items, fused_dict.items[k][1])
                             < fused_dict.items[k][2]
                THEN Colour("none")
                ELSE Colour("blue")
                : fused_dict \in {parse_multi_value(fused_str, separator)} })
            : supplier_dict \in {parse_multi_value(supplier_str, separator)} })
          : separator \in {IF rule.separator = NoneVal THEN <<"TIMES">>
                           ELSE rule.separator} })

\* the similarity, in percent, from which a text value is compliant
ComplianceThreshold == 60

\* '相似度' in fusion_type, '语义' in fusion_type, '范围' in fusion_type,
\* '单位转换' in fusion_type, '需人工审核' in fusion_type
SaysSimilarity(fusion_type) == fusion_type \in {T_high_similarity, T_medium_similarity}
SaysSemantic(fusion_type) == fusion_type = T_semantic_match
SaysRange(fusion_type) == fusion_type = T_numeric_range
SaysUnitConversion(fusion_type) == fusion_type = T_unit_conversion
SaysManualReview(fusion_type) == fusion_type = T_manual_review

NoEmptyCheckMutant(supplier_value, fused_value, parameter_name, fusion_type) ==
    IF Contains(Lower(Strip(supplier_value)), Lower(Strip(fused_value)))
    THEN Colour("blue")
    ELSE IF Lower(Strip(supplier_value)) = Lower(Strip(fused_value)) THEN Colour("blue")
    ELSE Colour("none")

\* _evaluate_supplier_compliance(supplier_value, fused_value, parameter_name,
\* fusion_type)
_evaluate_supplier_compliance(supplier_value, fused_value, parameter_name, fusion_type) ==
    IF supplier_value = NoneVal \/ Strip(supplier_value) = <<>> THEN Colour("gray")
    ELSE The({
        IF Contains(Lower(supplier_str), Lower(fused_str)) THEN Colour("blue")
        ELSE The({
            IF rule.type = "text" \/ SaysSimilarity(fusion_type)
               \/ SaysSemantic(fusion_type)
            THEN (IF _check_semantic_equivalent(supplier_str, fused_str)
                  THEN Colour("blue")
                  ELSE IF calculate_similarity(supplier_str, fused_str, "token_set")
                            >= ComplianceThreshold
                  THEN Colour("blue")
                  ELSE Colour("none"))
            ELSE IF rule.type = "numeric" \/ SaysRange(fusion_type)
                    \/ SaysUnitConversion(fusion_type)
            THEN Colour(_evaluate_numeric_compliance(supplier_str, fused_str, rule))
            ELSE IF rule.type = "multi_value"
            THEN _evaluate_multi_value_compliance(supplier_str, fused_str, rule)
            ELSE IF Lower(supplier_str) = Lower(fused_str) THEN Colour("blue")
            ELSE Colour("none")
            : rule \in {get_rule_for_parameter(parameter_name)} })
        : supplier_str \in {Strip(supplier_value)},
          fused_str \in {Strip(fused_value)} })

\* the cell as process_excel hands it to process_row: NaN as it is, else
\* the stripped text, preprocessed when it is an integrated cell
PreprocessedValue(value, param_name) ==
    IF value = NoneVal THEN value
    ELSE The({ IF is_integrated_params(value_str) THEN preprocess(value_str, param_name)
               ELSE value_str
               : value_str \in {Strip(value)} })

EvaluateAllMutant(name_cell, vendor_values) ==
    The({ The({ The({ The({
        [param_name |-> param_name,
         preprocessed_values |-> preprocessed_values,
         result |-> out.value, f_type |-> out.type, stat |-> out.stat,
         error |-> IF \E i \in 1..Len(evals) : evals[i].error # ""
                   THEN evals[CHOOSE i \in 1..Len(evals) :
                                 /\ evals[i].error # ""
                                 /\ \A j \in 1..(i - 1) : evals[j].error = ""].error
                   ELSE "",
         colors |-> [i \in 1..Len(evals) |-> evals[i].color],
         evaluated |-> IF \E i \in 1..Len(evals) : evals[i].error # ""
                       THEN CHOOSE i \in 1..Len(evals) :
                               /\ evals[i].error # ""
                               /\ \A j \in 1..(i - 1) : evals[j].error = ""
                       ELSE Len(evals)]
        : evals \in {[i \in 1..Len(preprocessed_values) |->
                        _evaluate_supplier_compliance(preprocessed_values[i],
                                                      out.value, param_name,
                                                      out.type)]} })
        : out \in {process_row(param_name, preprocessed_values)} })
        : preprocessed_values \in
            {[i \in 1..Len(vendor_values) |->
                PreprocessedValue(vendor_values[i], param_name)]} })
        : param_name \in {IF name_cell = NoneVal THEN <<>> ELSE Strip(name_cell)} })

\* one iteration of the loop of process_excel over a row (name cell and
\* vendor cells): the parameter name, the preprocessed cells, what
\* process_row returns and the counter it increments, the colour of every
\* vendor and the number of calls of _evaluate_supplier_compliance; error
\* is the exception an evaluation raises ("" for none)
RowOutcome(name_cell, vendor_values) ==
    The({ The({ The({ The({
        [param_name |-> param_name,
         preprocessed_values |-> preprocessed_values,
         result |-> out.value, f_type |-> out.type, stat |-> out.stat,
         error |-> IF \E i \in 1..Len(evals) : evals[i].error # ""
                   THEN evals[CHOOSE i \in 1..Len(evals) :
                                 /\ evals[i].error # ""
                                 /\ \A j \in 1..(i - 1) : evals[j].error = ""].error
                   ELSE "",
         colors |-> [i \in 1..Len(evals) |-> evals[i].color],
         evaluated |-> IF SaysManualReview(out.type) THEN 0
                       ELSE IF \E i \in 1..Len(evals) : evals[i].error # ""
                       THEN CHOOSE i \in 1..Len(evals) :
                               /\ evals[i].error # ""
                               /\ \A j \in 1..(i - 1) : evals[j].error = ""
                       ELSE Len(evals)]
        : evals \in {IF SaysManualReview(out.type)
                     THEN [i \in 1..Len(preprocessed_values) |-> Colour("none")]
                     ELSE [i \in 1..Len(preprocessed_values) |->
                             _evaluate_supplier_compliance(preprocessed_values[i],
                                                           out.value, param_name,
                                                           out.type)]} })
        : out \in {process_row(param_name, preprocessed_values)} })
        : preprocessed_values \in
            {[i \in 1..Len(vendor_values) |->
                PreprocessedValue(vendor_values[i], param_name)]} })
        : param_name \in {IF name_cell = NoneVal THEN <<>> ELSE Strip(name_cell)} })

\* ------------------------------------------------------------------------
\* Rows
\* ------------------------------------------------------------------------
MaxVendors == 3
MaxCalls == 2

P_device == <<"Z_she", "Z_bei">>
P_device_weight == <<"Z_she", "Z_bei", "Z_zhong", "Z_liang">>
P_scan_speed == <<"Z_sao", "Z_miao", "Z_su", "Z_du">>
P_weight == <<"Z_zhong", "Z_liang">>
P_time == <<"Z_shi", "Z_jian">>
P_precision == <<"Z_jing", "Z_du">>
P_error == <<"Z_wu4", "Z_cha">>
P_empty == <<>>
P_interface == <<"Z_jie", "Z_kou">>

CleanPool == { NoneVal, <<" ">>, <<"-">>, <<">", "A">>, <<" ", ">", "a">>, <<"b">>,
               <<"FLT", "=", "b">> }
MassPool == { <<"5", "k", "g">>, <<"5", "0", "0", "0", "g">>,
              <<"5", "Z_gong", "Z_jin">> }
SpeedPool == { <<"5", "m", "/", "s">>, <<"1", "0", "m", "/", "s">>,
               <<"8", "m", "/", "s">> }
WeightPool == { P_weight \o <<"5", "k", "g">>, P_weight \o <<"5", ".", "0", "k", "g">>,
                P_weight \o <<"6", "k", "g">>, P_weight \o <<"5", "0", "0", "0", "g">> }
TimePool == { P_time \o <<"2", "0", "s">>, P_time \o <<"3", "0", "s">>,
              P_time \o <<"5", "0", "H", "z">>,
              <<"Z_pin", "Z_lv">> \o P_time \o <<"5", "0", "H", "z">> }
TextPool == { P_precision \o <<"a", "b">>, P_error \o <<"c", "d">>,
              <<"x", "y", "z">>, <<"x", "y", "z", " ", "w">>,
              <<"x", "y", "z", "a", "b">> }
TolerancePool == { <<"PM", "5", "%">>, <<"PM", "1", "0", "%">>,
                   P_error \o <<"Z_bu", "Z_chao", "Z_guo", "8", "%">>, <<"8", "%">> }
ErrorStructPool == { P_error \o <<"5", "m", "m">>, P_error \o <<"8", "m", "m">> }
InterfacePool == { <<"U", "S", "B", "TIMES", "2">>, <<"U", "S", "B", "TIMES", "3">>,
                   <<"H", "D", "M", "I", "TIMES", "1">> }

Lists(pool) == UNION {[1..n -> pool] : n \in 1..MaxVendors}
RowsOf(name, pool) == {[name |-> name, data |-> d] : d \in Lists(pool)}

Rows == RowsOf(P_device, CleanPool)
        \cup RowsOf(P_device_weight, MassPool)
        \cup RowsOf(P_scan_speed, SpeedPool)
        \cup RowsOf(P_weight, WeightPool) \cup RowsOf(P_empty, WeightPool)
        \cup RowsOf(P_time, TimePool) \cup RowsOf(P_empty, TimePool)
        \cup RowsOf(P_precision, TextPool)
        \cup RowsOf(P_error, TolerancePool)
        \cup RowsOf(P_error, ErrorStructPool)
        \cup RowsOf(P_interface, InterfacePool)

\* ------------------------------------------------------------------------
\* State machine: one engine, one row at a time
\* ------------------------------------------------------------------------
\* parameter_name, vendor_data: the arguments of process_row; result, tried:
\* what the call returned and the strategies it ran; fusion_stats: the
\* engine's counters; calls: the process_row calls since construction or
\* the last reset_statistics; statistics: what get_statistics returned last
\* (<<>> before the first call); call, ret: a call of one of the pure
\* functions and its return value; pc: "ready" before a call, "done" after;
\* df: the sheet process_excel read (its rows, by number), index: the rows its loop has handled,
\* fused_data, fusion_types, vendor_compliance_colors: the lists the loop
\* fills, evaluated: for every handled row the number of calls of
\* _evaluate_supplier_compliance, output: what was written to the output
\* file (<<>> for nothing), returned: what process_excel returned
\* ("running" before it returns)
VARIABLES parameter_name, vendor_data, pc, result, tried, fusion_stats, calls,
          statistics, call, ret, df, index, fused_data, fusion_types,
          vendor_compliance_colors, evaluated, output, returned

vars == <<parameter_name, vendor_data, pc, result, tried, fusion_stats, calls,
          statistics, call, ret, df, index, fused_data, fusion_types,
          vendor_compliance_colors, evaluated, output, returned>>

rowVars == <<parameter_name, vendor_data, result, tried>>
pureVars == <<call, ret>>
excelVars == <<df, index, fused_data, fusion_types, vendor_compliance_colors,
               evaluated, output, returned>>

\* no sheet is being processed
NoExcel ==
    /\ df = <<>>
    /\ index = 0
    /\ fused_data = <<>>
    /\ fusion_types = <<>>
    /\ vendor_compliance_colors = <<>>
    /\ evaluated = <<>>
    /\ output = <<>>
    /\ returned = "idle"

\* a call of a pure function: the function and its arguments (the arguments
\* the function does not take are empty)
Call(op, name, text, value, from_unit, to_unit) ==
    [op |-> op, name |-> name, text |-> text, value |-> value,
     from_unit |-> from_unit, to_unit |-> to_unit, data |-> <<>>]

\* a call of a function that takes a list of values, a parameter name and
\* a number (0 when it takes none)
ListCall(op, data, name, value) ==
    [op |-> op, name |-> name, text |-> <<>>, value |-> value,
     from_unit |-> <<>>, to_unit |-> <<>>, data |-> data]

NoCall == Call("none", <<>>, <<>>, 0, <<>>, <<>>)

StatKeys == {"exact_match", "high_similarity", "semantic_match", "numeric_range",
             "unit_conversion", "single_supplier", "conflict_resolved",
             "manual_review", "insufficient_data", "medium_similarity"}

Init ==
    /\ \E row \in Rows : parameter_name = row.name /\ vendor_data = row.data
    /\ pc = "ready"
    /\ result = NoResult
    /\ tried = <<>>
    /\ fusion_stats = [k \in StatKeys |-> 0]
    /\ calls = 0
    /\ statistics = <<>>
    /\ call = NoCall
    /\ ret = NoneVal
    /\ NoExcel

\* engine.process_row(parameter_name, vendor_data)
ProcessRow ==
    /\ pc = "ready"
    /\ \E out \in {process_row(parameter_name, vendor_data)} :
          /\ result' = [value |-> out.value, type |-> out.type]
          /\ tried' = out.tried
          /\ fusion_stats' = [k \in StatKeys |->
                                IF k = out.stat THEN fusion_stats[k] + 1
                                ELSE fusion_stats[k]]
    /\ pc' = "done"
    /\ calls' = calls + 1
    /\ UNCHANGED <<parameter_name, vendor_data, statistics, pureVars, excelVars>>

\* the caller feeds the fused value back as the only vendor value of the
\* same parameter
Resubmit ==
    /\ pc = "done"
    /\ calls < MaxCalls
    /\ vendor_data' = <<result.value>>
    /\ pc' = "ready"
    /\ UNCHANGED <<parameter_name, result, tried, fusion_stats, calls, statistics,
                   pureVars, excelVars>>

Next == ProcessRow \/ Resubmit

Spec == Init /\ [][Next]_vars

TypeOK ==
    /\ pc \in {"ready", "done"}
    /\ calls \in 0..MaxCalls
    /\ \A k \in StatKeys : fusion_stats[k] \in 0..MaxCalls

\* ------------------------------------------------------------------------
\* State machine: one engine, rows and statistics calls
\* ------------------------------------------------------------------------
MaxStatCalls == 3

\* FUSION_TYPES restricted to the keys of fusion_stats
FUSION_TYPES ==
    [k \in StatKeys |->
       CASE k = "exact_match" -> T_exact_match
         [] k = "high_similarity" -> T_high_similarity
         [] k = "semantic_match" -> T_semantic_match
         [] k = "numeric_range" -> T_numeric_range
         [] k = "unit_conversion" -> T_unit_conversion
         [] k = "single_supplier" -> T_single_supplier
         [] k = "conflict_resolved" -> "ConflictResolved"
         [] k = "manual_review" -> T_manual_review
         [] k = "insufficient_data" -> T_insufficient_data
         [] k = "medium_similarity" -> T_medium_similarity]

\* sum(stats.values()) over the keys
RECURSIVE SumCounts(_, _)
SumCounts(stats, keys) ==
    IF keys = {} THEN 0
    ELSE The({ stats[k] + SumCounts(stats, keys \ {k})
               : k \in {CHOOSE k \in keys : TRUE} })

PercentOfCallsMutant(stats) ==
    [label \in {FUSION_TYPES[k] : k \in StatKeys} |->
       The({ [count |-> stats[k],
              percent |-> RoundDiv(stats[k] * 10000, MaxStatCalls)]
             : k \in {CHOOSE k \in StatKeys : FUSION_TYPES[k] = label} })]

\* get_statistics(): for each counter its label, count and percent of the
\* total; the percent, rounded to 2 decimals, is held in hundredths
get_statistics(stats) ==
    The({ [label \in {FUSION_TYPES[k] : k \in StatKeys} |->
             The({ [count |-> stats[k],
                    percent |-> IF total > 0 THEN RoundDiv(stats[k] * 10000, total)
                                ELSE 0]
                   : k \in {CHOOSE k \in StatKeys : FUSION_TYPES[k] = label} })]
          : total \in {SumCounts(stats, StatKeys)} })

StatRows == { [name |-> P_device, data |-> <<NoneVal, <<"-">>>>],
              [name |-> P_device, data |-> <<<<"b">>, NoneVal>>],
              [name |-> P_device, data |-> <<<<"b">>, <<"b">>>>] }

InitStats ==
    /\ \E row \in StatRows : parameter_name = row.name /\ vendor_data = row.data
    /\ pc = "ready"
    /\ result = NoResult
    /\ tried = <<>>
    /\ fusion_stats = [k \in StatKeys |-> 0]
    /\ calls = 0
    /\ statistics = <<>>
    /\ call = NoCall
    /\ ret = NoneVal
    /\ NoExcel

\* the caller passes the next row to the engine
NextRow ==
    /\ pc = "done"
    /\ calls < MaxStatCalls
    /\ \E row \in StatRows : parameter_name' = row.name /\ vendor_data' = row.data
    /\ pc' = "ready"
    /\ UNCHANGED <<result, tried, fusion_stats, calls, statistics, pureVars,
                   excelVars>>

\* engine.get_statistics()
GetStatistics ==
    /\ statistics' = <<get_statistics(fusion_stats)>>
    /\ UNCHANGED <<rowVars, pc, fusion_stats, calls, pureVars, excelVars>>

\* engine.reset_statistics()
ResetStatistics ==
    /\ fusion_stats' = [k \in StatKeys |-> 0]
    /\ calls' = 0
    /\ UNCHANGED <<rowVars, pc, statistics, pureVars, excelVars>>

NextStats == ProcessRow \/ NextRow \/ GetStatistics \/ ResetStatistics

SpecStats == InitStats /\ [][NextStats]_vars

\* ------------------------------------------------------------------------
\* State machine: one call of a pure function
\* ------------------------------------------------------------------------
RuleNamePool ==
    {PARAM_RULES[i].key : i \in 1..Len(PARAM_RULES)}
    \cup { <<>>, <<"Z_liang">>, <<"Z_tan">>, <<"x">>, P_device, P_device_weight,
           <<"Z_jie", "Z_kou", "Z_shu", "Z_liang">>,
           <<"Z_tan", "Z_tou", "Z_lei", "Z_xing2", "A">>,
           <<"Z_xing2">>, <<"Z_chi3", "Z_cun", "(", "m", "m", ")">> }

UnitPool == { U_kg, <<"g">>, <<"K", "G">>, <<"Z_gong", "Z_jin">>, U_Hz,
              <<"k", "H", "z">>, U_s, <<"m", "s">>, <<"W">>, <<"k", "W">>,
              <<"V">>, <<"k", "V">>, <<"DEGC">>, <<"DEG", "F">>, <<"x">>, <<>> }

ValuePool == { 5 * Scale, 25000 }

SegmentPool == { <<"i", "5", " ", "C", "P", "U">>,
                 <<"GE", "8", "G", " ", "Z_nei", "Z_cun2">>,
                 <<"R", "A", "M">>, <<"a">> }

DelimiterPool == { ",", "FCOMMA", "DUN", ";", "FSEMI" }

CellPool ==
    SegmentPool
    \cup { s1 \o <<d1>> \o s2 : s1 \in SegmentPool, s2 \in SegmentPool,
                                d1 \in DelimiterPool }
    \cup { s1 \o <<d1>> \o s2 \o <<d2>> \o s3 :
             s1 \in SegmentPool, s2 \in SegmentPool, s3 \in SegmentPool,
             d1 \in DelimiterPool, d2 \in DelimiterPool }

PreprocessNamePool == { <<"C", "P", "U">>, <<"Z_nei", "Z_cun2">>, <<"Z_cun2">>,
                        <<"Z_ying2", "Z_pan">>, P_weight, <<>> }

\* the lists of up to MaxValues values the numeric merge is called with
MaxValues == 4

MergeValuePool == { <<"1", "k", "g">>, <<"2", "k", "g">>, <<"1", "0", "k", "g">>,
                    <<"2", "0", "k", "g">>, <<"3", "0", "k", "g">> }

MergeCalls ==
    { ListCall("merge_numeric_values", d, <<>>, 0) :
        d \in UNION {[1..n -> MergeValuePool] : n \in 1..MaxValues} }

\* the lists of up to MaxItems texts the similarity clustering is called
\* with, at the high and at the medium threshold
MaxItems == 5

SimilarityPool == { <<"a", "b", "c", "d">>, <<"a", "b", "c", "d", "e", "f">>,
                    <<"a", "b", "c", "d", "e", "f", "g", "h">> }

SimilarityCalls ==
    { ListCall("try_similarity_fusion", d, <<>>, t) :
        d \in UNION {[1..n -> SimilarityPool] : n \in 1..MaxItems},
        t \in {HighThresholdPercent, MediumThresholdPercent} }

\* the lists of up to MaxValues values, of convertible and of incompatible
\* units, the numeric fusion is called with
UnitValuePool == { <<"1", "k", "g">>, <<"3", "K", "G">>, <<"5", "g">>, <<"6", "g">>,
                   <<"5", "s">> }

NumericCalls ==
    { ListCall("try_numeric_fusion", d, P_empty, 0) :
        d \in UNION {[1..n -> UnitValuePool] : n \in 1..MaxValues} }

PureCalls ==
    { Call("get_rule_for_parameter", n, <<>>, 0, <<>>, <<>>) : n \in RuleNamePool }
    \cup { Call("convert_unit", <<>>, <<>>, v, f, t) :
             v \in ValuePool, f \in UnitPool, t \in UnitPool }
    \cup { Call("is_integrated_params", <<>>, c, 0, <<>>, <<>>) : c \in CellPool }
    \cup { Call("preprocess", n, c, 0, <<>>, <<>>) :
             n \in PreprocessNamePool, c \in CellPool }
    \cup MergeCalls
    \cup SimilarityCalls
    \cup NumericCalls

InitPure ==
    /\ call \in PureCalls
    /\ ret = NoneVal
    /\ NoExcel
    /\ pc = "ready"
    /\ parameter_name = <<>>
    /\ vendor_data = <<>>
    /\ result = NoResult
    /\ tried = <<>>
    /\ fusion_stats = [k \in StatKeys |-> 0]
    /\ calls = 0
    /\ statistics = <<>>

\* the call returns
Return(value) ==
    /\ ret' = value
    /\ pc' = "done"
    /\ UNCHANGED <<call, rowVars, fusion_stats, calls, statistics, excelVars>>

\* engine.get_rule_for_parameter(param_name)
GetRuleForParameter ==
    /\ pc = "ready"
    /\ call.op = "get_rule_for_parameter"
    /\ Return(get_rule_for_parameter(call.name))

\* numeric_processor.convert_unit(value, from_unit, to_unit)
ConvertUnit ==
    /\ pc = "ready"
    /\ call.op = "convert_unit"
    /\ Return(convert_unit(call.value, call.from_unit, call.to_unit))

\* preprocessor.is_integrated_params(text)
IsIntegratedParams ==
    /\ pc = "ready"
    /\ call.op = "is_integrated_params"
    /\ Return(is_integrated_params(call.text))

\* engine.try_similarity_fusion(data, threshold): the returned pair and the
\* list similar_groups the call built
TrySimilarityFusion ==
    /\ pc = "ready"
    /\ call.op = "try_similarity_fusion"
    /\ Return([result |-> try_similarity_fusion(call.data, call.value),
               similar_groups |-> similar_groups(call.data, call.value, 1, {})])

\* engine.try_numeric_fusion(data, parameter_name)
TryNumericFusion ==
    /\ pc = "ready"
    /\ call.op = "try_numeric_fusion"
    /\ Return(try_numeric_fusion(call.data, call.name))

\* preprocessor.preprocess(value, parameter_name)
Preprocess ==
    /\ pc = "ready"
    /\ call.op = "preprocess"
    /\ Return(preprocess(call.text, call.name))

\* numeric_processor.merge_numeric_values(values, parameter_name): what it
\* returns, and the numbers it keeps after its noise filter
MergeNumericValues ==
    /\ pc = "ready"
    /\ call.op = "merge_numeric_values"
    /\ Return([result |-> merge_numeric_values(call.data, call.name),
               kept |-> The({ [i \in 1..Len(l) |-> l[i].value]
                              : l \in {NoiseFilter(
                                         numeric_data_to_process(call.data))} })])

NextPure ==
    \/ GetRuleForParameter
    \/ ConvertUnit
    \/ IsIntegratedParams
    \/ Preprocess
    \/ MergeNumericValues
    \/ TrySimilarityFusion
    \/ TryNumericFusion

SpecPure == InitPure /\ [][NextPure]_vars

\* ------------------------------------------------------------------------
\* State machine: process_excel over a sheet
\* ------------------------------------------------------------------------
MaxRows == 2

\* a row of the sheet: the name cell and one cell for each of the
\* MaxVendors vendor columns (NaN where the sheet has no value)
SheetRow(name, cells) ==
    [name |-> name,
     data |-> [v \in 1..MaxVendors |-> IF v <= Len(cells) THEN cells[v] ELSE NoneVal]]

P_model == <<"Z_xing2", "Z_hao">>
P_memory == <<"Z_nei", "Z_cun2">>

\* a cell 'A99...9' with more digits than int() converts
LongDigits == <<"A">> \o [i \in 1..(IntMaxStrDigits + 1) |-> "9"]

\* the rows a sheet is made of
BatchRows == <<
    SheetRow(P_model, << <<"Z_lan", "Z_ya2">>, <<"L">>, NoneVal >>),
    SheetRow(<<>>, << <<"a">>, <<"A">>, <<" ">> >>),
    SheetRow(P_weight, << <<"5", "k", "g">>, <<"5", "k", "g">>,
                          <<"5", ".", "2", "k", "g">> >>),
    SheetRow(P_model, << <<"a", "b", "c">>, <<"a", "b", "c", " ", "d", "e", "f">>,
                         <<"x", "y", "z">> >>),
    SheetRow(P_interface, << <<"U", "S", "B", "TIMES", "2">>,
                             <<"U", "S", "B", "TIMES", "2">>,
                             <<"U", "S", "B", "TIMES", "3">> >>),
    SheetRow(P_interface, << <<"U", "S", "B", "2">>, <<"U", "S", "B", "2">>,
                             LongDigits >>),
    SheetRow(P_memory, << <<"i", "5", " ", "C", "P", "U", ",", "8", "G", " ",
                            "Z_nei", "Z_cun2", ",", "R", "A", "M">>,
                          <<"8", "g", " ", "Z_nei", "Z_cun2">>, NoneVal >>),
    SheetRow(NoneVal, << NoneVal, <<" ">>, NoneVal >>),
    SheetRow(P_weight, << <<"5", "k", "g">>, <<"5", "k", "g">>,
                          <<"a", "b", "c">> >>) >>

\* a sheet of up to MaxRows rows, as the numbers of its rows in BatchRows
Sheets == UNION {[1..n -> 1..Len(BatchRows)] : n \in 0..MaxRows}

\* row i of the sheet
SheetRowAt(i) == BatchRows[df[i]]

\* what the loop of process_excel computes for row i
OutcomeAt(i) == RowOutcome(SheetRowAt(i).name, SheetRowAt(i).data)

InitExcel ==
    /\ df \in Sheets
    /\ index = 0
    /\ fused_data = <<>>
    /\ fusion_types = <<>>
    /\ vendor_compliance_colors = [v \in 1..MaxVendors |-> <<>>]
    /\ evaluated = <<>>
    /\ output = <<>>
    /\ returned = "running"
    /\ parameter_name = <<>>
    /\ vendor_data = <<>>
    /\ pc = "batch"
    /\ result = NoResult
    /\ tried = <<>>
    /\ fusion_stats = [k \in StatKeys |-> 0]
    /\ calls = 0
    /\ statistics = <<>>
    /\ call = NoCall
    /\ ret = NoneVal

\* one iteration of the loop of process_excel that raises nothing
RowStep ==
    /\ returned = "running"
    /\ index < Len(df)
    /\ \E out \in {OutcomeAt(index + 1)} :
          /\ out.error = ""
          /\ fused_data' = Append(fused_data, out.result)
          /\ fusion_types' = Append(fusion_types, out.f_type)
          /\ vendor_compliance_colors' =
                [v \in 1..MaxVendors |->
                   Append(vendor_compliance_colors[v], out.colors[v])]
          /\ evaluated' = Append(evaluated, out.evaluated)
          /\ fusion_stats' = [k \in StatKeys |->
                                IF k = out.stat THEN fusion_stats[k] + 1
                                ELSE fusion_stats[k]]
    /\ calls' = calls + 1
    /\ index' = index + 1
    /\ UNCHANGED <<df, output, returned, rowVars, pc, statistics, pureVars>>

\* an iteration raises: the except clause of process_excel logs the error
\* and returns False; nothing is written
RowRaises ==
    /\ returned = "running"
    /\ index < Len(df)
    /\ \E out \in {OutcomeAt(index + 1)} :
          /\ out.error # ""
          /\ fusion_stats' = [k \in StatKeys |->
                                IF k = out.stat THEN fusion_stats[k] + 1
                                ELSE fusion_stats[k]]
    /\ calls' = calls + 1
    /\ returned' = "False"
    /\ UNCHANGED <<df, index, fused_data, fusion_types, vendor_compliance_colors,
                   evaluated, output, rowVars, pc, statistics, pureVars>>

\* after the loop: the result columns and the colours are written to the
\* output file and process_excel returns True
Finish ==
    /\ returned = "running"
    /\ index = Len(df)
    /\ output' = <<[fused_data |-> fused_data, fusion_types |-> fusion_types,
                    vendor_compliance_colors |-> vendor_compliance_colors]>>
    /\ returned' = "True"
    /\ UNCHANGED <<df, index, fused_data, fusion_types, vendor_compliance_colors,
                   evaluated, fusion_stats, calls, rowVars, pc, statistics, pureVars>>

NextExcel == RowStep \/ RowRaises \/ Finish

SpecExcel == InitExcel /\ [][NextExcel]_vars

\* ------------------------------------------------------------------------
\* Properties of process_row
\* ------------------------------------------------------------------------
\* C1 (as amended): for every row in which exactly one vendor value is valid
\* (not null, not blank and not a sentinel placeholder), process_row returns
\* type SingleSupplier and the fused value is that value, trimmed, with its
\* comparison operators rewritten to GE / LE.
C1_SingleValidValue ==
    pc = "done" =>
        LET keep == {i \in 1..Len(vendor_data) :
                        /\ vendor_data[i] # NoneVal
                        /\ Strip(vendor_data[i]) # <<>>
                        /\ Strip(vendor_data[i]) \notin NEGATIVE_WORDS}
        IN Cardinality(keep) = 1 =>
             /\ result.type = T_single_supplier
             /\ \A i \in keep :
                  result.value = _normalize_comparison_operators(Strip(vendor_data[i]))

\* a row of a null cell and one padded value with an operator came back as
\* SingleSupplier, trimmed and canonicalised
C1_Witness ==
    /\ pc = "done"
    /\ vendor_data = <<NoneVal, <<" ", ">", "a">>>>
    /\ result = [value |-> <<"GE", "a">>, type |-> T_single_supplier]

\* C1 as stated: for every row in which exactly one vendor value is
\* non-empty, the result is SingleSupplier with that value, trimmed and
\* canonicalised.
C1_SingleNonEmptyValue ==
    pc = "done" =>
        LET nonEmpty == {i \in 1..Len(vendor_data) :
                            /\ vendor_data[i] # NoneVal
                            /\ Strip(vendor_data[i]) # <<>>}
        IN Cardinality(nonEmpty) = 1 =>
             /\ result.type = T_single_supplier
             /\ \A i \in nonEmpty :
                  result.value = _normalize_comparison_operators(Strip(vendor_data[i]))

\* C2 (as amended): for every row with at least two valid values in which
\* some normalized, punctuation-stripped form occurs at least twice,
\* process_row returns type ExactMatch and the fused value is one of the
\* vendor strings that normalize to a repeated form, trimmed and with its
\* comparison operators rewritten to GE / LE.
C2_ExactMatchCanonical ==
    pc = "done" =>
        LET data == valid_data(vendor_data)
            normalized == ExactNormalized(data)
            repeated == {i \in 1..Len(data) : Count(normalized, normalized[i]) >= 2}
        IN (Len(data) >= 2 /\ repeated # {}) =>
             /\ result.type = T_exact_match
             /\ \E i \in repeated :
                  result.value = _normalize_comparison_operators(data[i])

\* two spellings of one value with an operator were fused by exact match
C2_Witness ==
    /\ pc = "done"
    /\ vendor_data = <<<<">", "A">>, <<" ", ">", "a">>>>
    /\ result = [value |-> <<"GE", "A">>, type |-> T_exact_match]

\* C2 as stated: under the same condition the fused value is one of the
\* original, non-normalized vendor strings that normalize to the repeated
\* form.
C2_ExactMatchOriginal ==
    pc = "done" =>
        LET data == valid_data(vendor_data)
            normalized == ExactNormalized(data)
        IN (Len(data) >= 2
            /\ \E i \in 1..Len(data) : Count(normalized, normalized[i]) >= 2) =>
             /\ result.type = T_exact_match
             /\ \E k \in 1..Len(vendor_data) :
                  /\ IsValid(vendor_data[k])
                  /\ Count(normalized,
                           remove_punctuation(normalize_text(vendor_data[k]))) >= 2
                  /\ result.value = vendor_data[k]

\* C3: for every row whose vendor values are all null, blank or a sentinel
\* placeholder, process_row returns type InsufficientData with the literal
\* marker, only the insufficient-data counter moves and no strategy after
\* the cleaning step is run.
C3_InsufficientData ==
    pc = "done" =>
        ((\A i \in 1..Len(vendor_data) :
             \/ vendor_data[i] = NoneVal
             \/ Strip(vendor_data[i]) = <<>>
             \/ Strip(vendor_data[i]) \in NEGATIVE_WORDS) =>
           /\ result = [value |-> InsufficientMarker, type |-> T_insufficient_data]
           /\ tried = <<"Clean">>
           /\ fusion_stats["insufficient_data"] = calls
           /\ \A k \in StatKeys \ {"insufficient_data"} : fusion_stats[k] = 0)

\* a row of a null cell, a blank cell and a sentinel was processed
C3_Witness ==
    /\ pc = "done"
    /\ vendor_data = <<NoneVal, <<" ">>, <<"-">>>>
    /\ result.type = T_insufficient_data
    /\ tried = <<"Clean">>

\* C4: every call of process_row returns exactly one (value, type) pair, the
\* type being one of the fusion-type labels and the value a non-empty string;
\* when exact match, the tolerance / numeric strategy that was applicable,
\* high similarity, medium similarity and the semantic strategy all yield no
\* result, the type is ManualReview and the value is the raw value occurring
\* most often if it occurs at least twice, otherwise the first valid value.
C4_ManualReviewFallback ==
    pc = "done" =>
        LET data == valid_data(vendor_data)
            majority == {i \in 1..Len(data) : Count(data, data[i]) >= 2}
        IN /\ result.type \in {T_exact_match, T_high_similarity, T_medium_similarity,
                               T_semantic_match, T_numeric_range, T_unit_conversion,
                               T_single_supplier, T_manual_review,
                               T_insufficient_data, T_tolerance, T_error_struct}
           /\ result.value # NoneVal
           /\ Len(result.value) > 0
           /\ ( ( /\ Len(data) >= 2
                  /\ try_exact_match(data) = NoResult
                  /\ ToleranceGate(data, parameter_name)
                       => _try_tolerance_fusion(data) = NoResult
                  /\ (NumericGate(data) /\ ~ToleranceGate(data, parameter_name))
                       => try_numeric_fusion(data, parameter_name) = NoResult
                  /\ try_similarity_fusion(data, HighThresholdPercent) = NoResult
                  /\ try_similarity_fusion(data, MediumThresholdPercent) = NoResult
                  /\ try_semantic_fusion(data, parameter_name) = NoResult )
                => /\ result.type = T_manual_review
                   /\ IF majority # {}
                      THEN \E i \in majority :
                             /\ result.value = data[i]
                             /\ \A j \in 1..Len(data) :
                                  Count(data, data[j]) <= Count(data, data[i])
                      ELSE result.value = data[1] )

\* two unrelated values: every strategy failed and the first value came back
\* for manual review
C4_Witness ==
    /\ pc = "done"
    /\ vendor_data = <<<<"b">>, <<">", "A">>>>
    /\ result = [value |-> <<"b">>, type |-> T_manual_review]
    /\ tried[Len(tried)] = "ConflictResolution"

\* C5: process_row runs the strategies strictly in the order Clean,
\* ExactMatch, Tolerance / Numeric fusion, HighSimilarity, MediumSimilarity,
\* Semantic, ConflictResolution: the strategies run form an increasing
\* selection of that order that skips no applicable strategy, every strategy
\* run before the last one yielded nothing, the last one yielded the
\* returned result, and nothing is run after it.
C5_StrategyOrder ==
    pc = "done" =>
        LET data == valid_data(vendor_data)
            order == <<"Clean", "ExactMatch", "Tolerance", "Numeric", "HighSimilarity",
                       "MediumSimilarity", "Semantic", "ConflictResolution">>
            Pos(s) == CHOOSE k \in 1..Len(order) : order[k] = s
            Canon(r) == [value |-> _normalize_comparison_operators(r.value),
                         type |-> r.type]
            Applicable(s) ==
                CASE s = "Clean" -> TRUE
                  [] s = "Tolerance" ->
                       Len(data) >= 2 /\ ToleranceGate(data, parameter_name)
                  [] s = "Numeric" ->
                       /\ Len(data) >= 2
                       /\ ~ToleranceGate(data, parameter_name)
                       /\ NumericGate(data)
                  [] OTHER -> Len(data) >= 2
            Out(s) ==
                CASE s = "Clean" ->
                       IF Len(data) = 0
                       THEN [value |-> InsufficientMarker, type |-> T_insufficient_data]
                       ELSE IF Len(data) = 1
                       THEN [value |-> _normalize_comparison_operators(data[1]),
                             type |-> T_single_supplier]
                       ELSE NoResult
                  [] s = "ExactMatch" -> Canon(try_exact_match(data))
                  [] s = "Tolerance" -> _try_tolerance_fusion(data)
                  [] s = "Numeric" -> Canon(try_numeric_fusion(data, parameter_name))
                  [] s = "HighSimilarity" ->
                       Canon(try_similarity_fusion(data, HighThresholdPercent))
                  [] s = "MediumSimilarity" ->
                       [value |-> _normalize_comparison_operators(
                                     try_similarity_fusion(data,
                                         MediumThresholdPercent).value),
                        type |-> IF try_similarity_fusion(data,
                                        MediumThresholdPercent) = NoResult
                                 THEN NoneType ELSE T_medium_similarity]
                  [] s = "Semantic" -> Canon(try_semantic_fusion(data, parameter_name))
                  [] s = "ConflictResolution" ->
                       [value |-> handle_conflict(data), type |-> T_manual_review]
            last == tried[Len(tried)]
        IN /\ Len(tried) >= 1
           /\ \A k \in 1..Len(tried) : \E j \in 1..Len(order) : order[j] = tried[k]
           /\ \A k \in 1..(Len(tried) - 1) : Pos(tried[k]) < Pos(tried[k + 1])
           /\ \A k \in 1..(Len(tried) - 1) : Out(tried[k]).type = NoneType
           /\ Out(last).type # NoneType
           /\ result = Out(last)
           /\ \A j \in 1..(Pos(last) - 1) :
                Applicable(order[j]) => \E k \in 1..Len(tried) : tried[k] = order[j]

\* the numeric strategy and high similarity were run and yielded nothing
\* before medium similarity produced the result
C5_Witness ==
    /\ pc = "done"
    /\ tried = <<"Clean", "ExactMatch", "Numeric", "HighSimilarity", "MediumSimilarity">>
    /\ result.type = T_medium_similarity

\* C6: whenever the result comes from a strategy other than the terminal
\* ConflictResolution fallback, the fused value contains none of the
\* characters '>' and '<' (so neither '>=' nor '<=') nor their full-width
\* forms.
C6_OperatorsCanonical ==
    (pc = "done" /\ tried[Len(tried)] # "ConflictResolution") =>
        \A k \in 1..Len(result.value) :
            result.value[k] \notin {">", "<", "FGT", "FLT"}

\* a half-width and a full-width operator were both rewritten on the way
\* out of exact matching
C6_Witness ==
    /\ pc = "done"
    /\ vendor_data = <<<<"FLT", "=", "b">>, <<">", "A">>, <<"FLT", "=", "b">>>>
    /\ result = [value |-> <<"LE", "b">>, type |-> T_exact_match]

\* C7: idempotence: when the fused value v of a row is processed again as
\* the one-element list [v] under the same parameter name, the result is
\* SingleSupplier with value exactly v.
C7_Idempotence ==
    (pc = "done" /\ calls >= 2) =>
        result = [value |-> vendor_data[1], type |-> T_single_supplier]

\* C8: unit equivalence: the values 5kg, 5000g, 5 gongjin of the parameter
\* "device weight" give, from try_numeric_fusion and from process_row, type
\* UnitConversion with the value 5 in kg.
C8_UnitEquivalence ==
    ( /\ pc = "done"
      /\ calls = 1
      /\ parameter_name = P_device_weight
      /\ vendor_data = <<<<"5", "k", "g">>, <<"5", "0", "0", "0", "g">>,
                         <<"5", "Z_gong", "Z_jin">>>> ) =>
        /\ try_numeric_fusion(vendor_data, parameter_name).type = T_unit_conversion
        /\ result.type = T_unit_conversion
        /\ Contains(result.value, <<"5", "k", "g">>)

\* C9: range scenario: the values 5m/s, 10m/s, 8m/s of the parameter "scan
\* speed" give, from try_numeric_fusion and from process_row, type
\* NumericRange with a value containing 5, 10 and m/s.
C9_RangeScenario ==
    ( /\ pc = "done"
      /\ calls = 1
      /\ parameter_name = P_scan_speed
      /\ vendor_data = <<<<"5", "m", "/", "s">>, <<"1", "0", "m", "/", "s">>,
                         <<"8", "m", "/", "s">>>> ) =>
        /\ try_numeric_fusion(vendor_data, parameter_name).type = T_numeric_range
        /\ result.type = T_numeric_range
        /\ Contains(result.value, <<"5">>)
        /\ Contains(result.value, <<"1", "0">>)
        /\ Contains(result.value, <<"m", "/", "s">>)

\* C10 (as amended): for every row in which the values that pass the
\* relevance filter of the parameter name carry, among their extracted
\* units, both Hz and s, process_row never returns type NumericRange or
\* UnitConversion; the result comes from another strategy.
C10_IncompatibleRelevantUnits ==
    pc = "done" =>
        LET data == valid_data(vendor_data)
            relevant == {i \in 1..Len(data) : is_relevant_data(data[i], parameter_name)}
            UnitsOf(i) == LET info == extract_numeric_info(data[i])
                          IN {Lower(info[k].unit) : k \in 1..Len(info)}
            units == UNION {UnitsOf(i) : i \in relevant}
        IN (Lower(U_Hz) \in units /\ Lower(U_s) \in units) =>
             /\ result.type \notin {T_numeric_range, T_unit_conversion}
             /\ result.type \in {T_exact_match, T_tolerance, T_high_similarity,
                                 T_medium_similarity, T_semantic_match,
                                 T_manual_review}

\* a value in seconds and a value in Hz, both relevant, reached the numeric
\* strategy, which refused them, and the row went to manual review
C10_Witness ==
    /\ pc = "done"
    /\ parameter_name = P_time
    /\ vendor_data = <<P_time \o <<"2", "0", "s">>, P_time \o <<"5", "0", "H", "z">>>>
    /\ \E k \in 1..Len(tried) : tried[k] = "Numeric"
    /\ result.type \notin {T_numeric_range, T_unit_conversion}

\* C10 as stated: for every row whose vendor values include one expressed
\* in Hz and one expressed in seconds, the result is never NumericRange or
\* UnitConversion but that of a text, semantic or manual-review strategy.
C10_HzAndSeconds ==
    pc = "done" =>
        LET data == valid_data(vendor_data)
            UnitsOf(i) == LET info == extract_numeric_info(data[i])
                          IN {Lower(info[k].unit) : k \in 1..Len(info)}
            units == UNION {UnitsOf(i) : i \in 1..Len(data)}
        IN (Lower(U_Hz) \in units /\ Lower(U_s) \in units) =>
             /\ result.type \notin {T_numeric_range, T_unit_conversion}
             /\ result.type \in {T_exact_match, T_high_similarity,
                                 T_medium_similarity, T_semantic_match,
                                 T_manual_review}

FusionTypeEnum == {T_exact_match, T_high_similarity, T_medium_similarity,
                   T_semantic_match, T_numeric_range, T_unit_conversion,
                   T_tolerance, "MultiValue", T_single_supplier,
                   "ConflictResolved", T_manual_review, T_insufficient_data}

\* C20: the fusion type process_row returns is always a member of the
\* closed FusionType enum; no other label is ever returned.
C20_ClosedEnum ==
    pc = "done" => result.type \in FusionTypeEnum

\* ------------------------------------------------------------------------
\* Properties of rule resolution, unit conversion and preprocessing
\* ------------------------------------------------------------------------
\* the keys of PARAM_RULES that contain the name or are contained in it
SubstringKeys(param_name) ==
    {PARAM_RULES[i].key : i \in {j \in 1..Len(PARAM_RULES) :
                                   \/ Contains(param_name, PARAM_RULES[j].key)
                                   \/ Contains(PARAM_RULES[j].key, param_name)}}

RegisteredRule(key) ==
    PARAM_RULES[CHOOSE i \in 1..Len(PARAM_RULES) : PARAM_RULES[i].key = key]

\* C14: get_rule_for_parameter returns a rule for every name: the rule
\* registered under the exact name when there is one, otherwise the rule of
\* a key that contains the name or is contained in it, and the default rule
\* only when no key matches exactly or by substring.
C14_RuleResolution ==
    (pc = "done" /\ call.op = "get_rule_for_parameter") =>
        \E keys \in {{PARAM_RULES[i].key : i \in 1..Len(PARAM_RULES)}} :
            /\ ret = AutoRule \/ (ret.key \in keys /\ ret = RegisteredRule(ret.key))
            /\ call.name \in keys => ret.key = call.name
            /\ (call.name \notin keys /\ SubstringKeys(call.name) # {})
                  => ret.key \in SubstringKeys(call.name)
            /\ ret = AutoRule <=> SubstringKeys(call.name) = {}

\* the name rong-liang is a key and is also contained in the earlier key
\* dian-chi-rong-liang
C14_Witness ==
    /\ pc = "done"
    /\ call.op = "get_rule_for_parameter"
    /\ call.name = <<"Z_rong", "Z_liang">>
    /\ ret.key = call.name

\* the categories (with the electrical sub-type) whose conversions list the
\* unit, ignoring case; empty for an unregistered unit
UnitCategories(unit) ==
    IF unit = <<>> THEN {}
    ELSE { <<MEDICAL_UNITS[e].category, MEDICAL_UNITS[e].sub>> :
             e \in {x \in 1..Len(MEDICAL_UNITS) :
                      \E k \in 1..Len(MEDICAL_UNITS[x].conversions) :
                         Lower(MEDICAL_UNITS[x].conversions[k][1]) = Lower(unit)} }

\* C15: convert_unit returns none whenever a unit is not registered or the
\* two units belong to different categories or electrical sub-types; it
\* returns a number only when both units belong to the same category.
C15_ConvertUnit ==
    (pc = "done" /\ call.op = "convert_unit") =>
        \E fcs \in {UnitCategories(call.from_unit)},
           tcs \in {UnitCategories(call.to_unit)} :
            /\ (fcs = {} \/ tcs = {} \/ fcs \cap tcs = {}) => ret = NoneNum
            /\ ret # NoneNum => (fcs # {} /\ fcs = tcs)

\* kW is a power unit and kV a voltage unit of the electrical category
C15_Witness ==
    /\ pc = "done"
    /\ call.op = "convert_unit"
    /\ call.from_unit = <<"k", "W">>
    /\ call.to_unit = <<"k", "V">>
    /\ ret = NoneNum

\* the delimiters of an integrated cell: comma, full-width comma,
\* enumeration comma, semicolon, full-width semicolon
CellDelimiters == {",", "FCOMMA", "DUN", ";", "FSEMI"}

\* C16: a cell is classified as integrated exactly when it contains at
\* least two delimiter characters, semicolons included.
C16_Integrated ==
    (pc = "done" /\ call.op = "is_integrated_params") =>
        (ret <=> Cardinality({i \in 1..Len(call.text) :
                                call.text[i] \in CellDelimiters}) >= 2)

\* the parser type of one segment matches the target type of the parameter
\* name by substring, in either direction, ignoring case
FuzzyType(param_type, target_type) ==
    \/ Contains(Lower(param_type), Lower(target_type))
    \/ Contains(Lower(target_type), Lower(param_type))

\* C17: preprocess returns the content of a segment of the cell whose type
\* matches the parameter name (the first segment of exactly the target type
\* if there is one, else a segment whose type matches by substring), and
\* the original string when the cell is blank or not integrated, the name is
\* empty or no segment matches.
C17_Preprocess ==
    (pc = "done" /\ call.op = "preprocess") =>
        IF Strip(call.text) = <<>> \/ ~is_integrated_params(call.text)
           \/ call.name = <<>>
        THEN ret = call.text
        ELSE \E items \in {parse_integrated_params(call.text)},
                target_type \in {TargetType(call.name)} :
               \E exact \in {{k \in 1..Len(items) :
                                items[k].param_type = target_type}},
                  fuzzy \in {{k \in 1..Len(items) :
                                FuzzyType(items[k].param_type, target_type)}} :
                  /\ exact # {} =>
                        ret = items[CHOOSE k \in exact : \A j \in exact : k <= j].content
                  /\ (exact = {} /\ fuzzy # {}) =>
                        \E k \in fuzzy : ret = items[k].content
                  /\ fuzzy = {} => ret = call.text

\* "i5 CPU,>=8G nei-cun, RAM" for the parameter nei-cun: the second and the
\* third segment are memory segments
C17_Witness ==
    /\ pc = "done"
    /\ call.op = "preprocess"
    /\ call.name = <<"Z_nei", "Z_cun2">>
    /\ call.text = <<"i", "5", " ", "C", "P", "U", ",",
                     "GE", "8", "G", " ", "Z_nei", "Z_cun2", "DUN", "R", "A", "M">>
    /\ ret = <<"8", "G", " ", "Z_nei", "Z_cun2">>

\* ------------------------------------------------------------------------
\* Properties of the statistics
\* ------------------------------------------------------------------------
\* report gives, for every counter, its count and that count as a percent
\* of the total of stats to the nearest hundredth, 0 when the total is 0
IsSnapshot(report, stats) ==
    \E total \in {SumCounts(stats, StatKeys)} :
        \A k \in StatKeys :
            \E entry \in {report[FUSION_TYPES[k]]} :
                /\ entry.count = stats[k]
                /\ total = 0 => entry.percent = 0
                /\ total > 0 =>
                      /\ 2 * (entry.percent * total - stats[k] * 10000) <= total
                      /\ 2 * (stats[k] * 10000 - entry.percent * total) <= total

VendorValue(i, v) ==
    PreprocessedValue(SheetRowAt(i).data[v],
                      IF SheetRowAt(i).name = NoneVal THEN <<>>
                      ELSE Strip(SheetRowAt(i).name))

\* an empty vendor value: no cell, or a blank one
IsEmptyValue(x) == x = NoneVal \/ Strip(x) = <<>>

\* the vendor value equals the fused value of row i, ignoring case
EqualsFused(x, i) == ~IsEmptyValue(x) /\ Lower(Strip(x)) = Lower(Strip(fused_data[i]))

\* in handled row i the value equal to the fused one is Compliant (blue)
\* and the empty one is NoData (gray)
RoundTripAt(i) ==
    \A v \in 1..MaxVendors :
        \E x \in {VendorValue(i, v)} :
            /\ IsEmptyValue(x) => vendor_compliance_colors[v][i] = "gray"
            /\ EqualsFused(x, i) => vendor_compliance_colors[v][i] = "blue"

\* C12 (as amended): in every processed row whose fusion type is not
\* ManualReview, a vendor value that equals the row's fused value ignoring
\* case is classified Compliant, and an empty vendor value is classified
\* NoData.
C12_RoundTrip ==
    \A i \in 1..index : fusion_types[i] # T_manual_review => RoundTripAt(i)

\* a handled row with an exact match holds a vendor value that differs from
\* the fused value only in case and an empty vendor value
C12_Witness ==
    \E i \in 1..index :
        /\ fusion_types[i] = T_exact_match
        /\ \E v \in 1..MaxVendors :
              /\ EqualsFused(VendorValue(i, v), i)
              /\ VendorValue(i, v) # fused_data[i]
              /\ vendor_compliance_colors[v][i] = "blue"
        /\ \E v \in 1..MaxVendors :
              /\ VendorValue(i, v) = <<>>
              /\ vendor_compliance_colors[v][i] = "gray"

\* C12 as stated: the same in every processed row, ManualReview rows
\* included.
C12_EveryRow == \A i \in 1..index : RoundTripAt(i)

\* C13: every vendor of a ManualReview row gets the neutral marker without
\* a compliance evaluation; in every other row each vendor is evaluated
\* once, against the fused value and type that process_row returned for the
\* row's values alone.
C13_ManualReviewExcluded ==
    \A i \in 1..index :
        /\ \E out \in {process_row(IF SheetRowAt(i).name = NoneVal THEN <<>>
                                   ELSE Strip(SheetRowAt(i).name),
                                   [v \in 1..MaxVendors |-> VendorValue(i, v)])} :
              fused_data[i] = out.value /\ fusion_types[i] = out.type
        /\ IF fusion_types[i] = T_manual_review
           THEN /\ evaluated[i] = 0
                /\ \A v \in 1..MaxVendors : vendor_compliance_colors[v][i] = "none"
           ELSE /\ evaluated[i] = MaxVendors
                /\ \A v \in 1..MaxVendors :
                      _evaluate_supplier_compliance(
                          VendorValue(i, v), fused_data[i],
                          IF SheetRowAt(i).name = NoneVal THEN <<>>
                          ELSE Strip(SheetRowAt(i).name),
                          fusion_types[i]).color
                        = vendor_compliance_colors[v][i]

\* a ManualReview row whose first vendor holds the fused value was handled
\* without an evaluation, and a row of another type with one evaluation for
\* each vendor
C13_Witness ==
    /\ \E i \in 1..index :
          /\ fusion_types[i] = T_manual_review
          /\ evaluated[i] = 0
          /\ EqualsFused(VendorValue(i, 1), i)
          /\ vendor_compliance_colors[1][i] = "none"
    /\ \E i \in 1..index :
          /\ fusion_types[i] = T_high_similarity
          /\ evaluated[i] = MaxVendors
          /\ vendor_compliance_colors[1][i] = "blue"
          /\ vendor_compliance_colors[3][i] = "none"

\* C19: process_excel handles every row of the sheet and writes a fusion
\* result for each, whatever the rows hold.
C19_NeverAborts ==
    returned # "running" =>
        /\ returned = "True"
        /\ index = Len(df)
        /\ Len(fused_data) = Len(df)
        /\ output # <<>>

\* ------------------------------------------------------------------------
\* Properties of the statistics counters
\* ------------------------------------------------------------------------
\* C25: the sum of the statistics counters equals the number of process_row
\* calls made since construction or the last reset_statistics.
C25_EveryRowRecorded == SumCounts(fusion_stats, StatKeys) = calls

\* C26: whenever process_row increments a statistics counter, it is the
\* counter of the fusion type that the same call returns.
C26_CounterOfReturnedType ==
    [][ProcessRow =>
          \A k \in StatKeys :
              fusion_stats'[k] # fusion_stats[k] => FUSION_TYPES[k] = result'.type]_vars

\* ------------------------------------------------------------------------
\* Properties of the numeric merge
\* ------------------------------------------------------------------------
\* the numbers extracted from the values of a merge_numeric_values call
ExtractedValues(values) ==
    The({ [i \in 1..Len(l) |-> l[i].value] : l \in {numeric_data_to_process(values)} })

\* C24: when more than 3 distinct rounded values were extracted and the
\* minimum is below half the median, merge_numeric_values drops the minimum
\* and keeps every other extracted value; otherwise it drops none.
C24_OutlierFilter ==
    (call.op = "merge_numeric_values" /\ pc = "done") =>
        \E vals \in {ExtractedValues(call.data)} :
            IF /\ Cardinality({Round1(vals[i]) : i \in 1..Len(vals)}) > 3
               /\ 2 * SeqMin(vals) < SortedAt(vals, Len(vals) \div 2)
            THEN ret.kept = SelectSeq(vals, LAMBDA v : v # SeqMin(vals))
            ELSE ret.kept = vals

\* ------------------------------------------------------------------------
\* Properties of multi-value parameters
\* ------------------------------------------------------------------------
\* C22: a row whose parameter the rule resolver classifies as multi-value,
\* with at least two valid values, is fused by merging the vendors'
\* key -> count mappings and returns type MultiValue
C22_MultiValueFusion ==
    (/\ pc = "done"
     /\ get_rule_for_parameter(parameter_name).type = "multi_value"
     /\ Len(valid_data(vendor_data)) >= 2)
        => result.type = T_multi_value

\* ------------------------------------------------------------------------
\* Properties of the manual-review fallback
\* ------------------------------------------------------------------------
\* C27: every row process_row returns with type ManualReview carries the
\* first valid vendor value, trimmed; its valid values are pairwise
\* different, so the majority vote of handle_conflict has nothing to elect
C27_ManualReviewFirstValid ==
    (pc = "done" /\ result.type = T_manual_review) =>
        \E data \in {valid_data(vendor_data)} :
            /\ Len(data) >= 2
            /\ result.value = data[1]
            /\ \A i, j \in 1..Len(data) : i # j => data[i] # data[j]

C27_Witness ==
    /\ pc = "done"
    /\ vendor_data = <<NoneVal, <<" ", ">", "a">>, <<"b">>>>
    /\ result = [value |-> <<">", "a">>, type |-> T_manual_review]

\* ------------------------------------------------------------------------
\* Properties of the similarity strategies
\* ------------------------------------------------------------------------
\* some pair of values, the earlier one first, whose best similarity over
\* the three metrics reaches the threshold
SomePairAtLeast(data, threshold_percent) ==
    \E i \in 1..Len(data) : \E j \in (i + 1)..Len(data) :
        max_similarity(data[i], data[j]) >= threshold_percent

\* C28: when the chain reaches the similarity strategies, the row is
\* returned as HighSimilarity exactly when some pair of valid values is at
\* or above the high threshold; a row labelled MediumSimilarity has no pair
\* at or above the high threshold and a pair at or above the medium one
C28_SimilarityLabels ==
    (pc = "done" /\ InSeq("HighSimilarity", tried)) =>
        \E data \in {valid_data(vendor_data)} :
            /\ result.type = T_high_similarity
                 <=> SomePairAtLeast(data, HighThresholdPercent)
            /\ result.type = T_medium_similarity =>
                 /\ ~SomePairAtLeast(data, HighThresholdPercent)
                 /\ SomePairAtLeast(data, MediumThresholdPercent)
                 /\ fusion_stats["medium_similarity"] >= 1

C28_Witness ==
    /\ pc = "done"
    /\ parameter_name = P_scan_speed
    /\ vendor_data = <<<<"5", "m", "/", "s">>, <<"1", "0", "m", "/", "s">>,
                       <<"8", "m", "/", "s">>>>
    /\ result.type = T_medium_similarity
    /\ ~SomePairAtLeast(valid_data(vendor_data), HighThresholdPercent)

\* the similarity s reaches the threshold: exceeds it (strict) or is at
\* least the threshold
Reaches(s, threshold_percent, strict) ==
    IF strict THEN s > threshold_percent ELSE s >= threshold_percent

\* the items claimed before the scan arrives at item i
ClaimedBefore(groups, i) ==
    UNION {groups[g].members : g \in {h \in 1..Len(groups) : groups[h].seed < i}}

\* groups are the clusters of the single-pass greedy scan of data: in scan
\* order, disjoint, each of at least two items with its seed leftmost, and
\* every item unclaimed when the scan arrives seeds the cluster of exactly
\* the later unclaimed items whose similarity to it reaches the threshold
GreedyClusters(data, threshold_percent, groups, strict) ==
    /\ \A g \in 1..Len(groups) :
         /\ groups[g].seed \in groups[g].members
         /\ Cardinality(groups[g].members) >= 2
         /\ groups[g].members \subseteq groups[g].seed..Len(data)
         /\ \A h \in (g + 1)..Len(groups) :
              /\ groups[g].seed < groups[h].seed
              /\ groups[g].members \cap groups[h].members = {}
    /\ \A i \in 1..Len(data) :
         \E claimed \in {ClaimedBefore(groups, i)} :
            IF i \in claimed
            THEN \A g \in 1..Len(groups) : groups[g].seed # i
            ELSE \E later \in {{j \in (i + 1)..Len(data) :
                                  /\ j \notin claimed
                                  /\ Reaches(max_similarity(data[i], data[j]),
                                             threshold_percent, strict)}} :
                    IF later = {}
                    THEN \A g \in 1..Len(groups) : groups[g].seed # i
                    ELSE \E g \in 1..Len(groups) :
                            /\ groups[g].seed = i
                            /\ groups[g].members = {i} \cup later

\* the returned pair is the leftmost member of the largest cluster (the
\* earliest of equally large ones), and nothing when there is no cluster
LeftmostOfLargest(data, groups, pair) ==
    IF groups = <<>> THEN pair = NoResult
    ELSE \E g \in 1..Len(groups) :
            /\ \A h \in 1..Len(groups) :
                 Cardinality(groups[h].members) <= Cardinality(groups[g].members)
            /\ \A h \in 1..(g - 1) :
                 Cardinality(groups[h].members) < Cardinality(groups[g].members)
            /\ pair = [value |-> data[groups[g].seed], type |-> T_high_similarity]

\* C23: try_similarity_fusion clusters in one greedy left-to-right pass, a
\* later unclaimed item joining the seed's cluster when its similarity to
\* the seed is at least the threshold, and returns the leftmost member of
\* the largest cluster of two or more items, or nothing
C23_GreedyClustering ==
    (pc = "done" /\ call.op = "try_similarity_fusion") =>
        /\ GreedyClusters(call.data, call.value, ret.similar_groups, FALSE)
        /\ LeftmostOfLargest(call.data, ret.similar_groups, ret.result)

\* the larger cluster comes second, and an item similar to a member of the
\* first cluster but not to its seed stays outside
C23_Witness ==
    /\ pc = "done"
    /\ call.op = "try_similarity_fusion"
    /\ call.value = HighThresholdPercent
    /\ call.data = << <<"a", "b", "c", "d">>, <<"a", "b", "c", "d", "e", "f">>,
                      <<"a", "b", "c", "d", "e", "f", "g", "h">>,
                      <<"a", "b", "c", "d", "e", "f", "g", "h">>,
                      <<"a", "b", "c", "d", "e", "f", "g", "h">> >>
    /\ ret.similar_groups = <<[seed |-> 1, members |-> {1, 2}],
                              [seed |-> 3, members |-> {3, 4, 5}]>>
    /\ ret.result.value = <<"a", "b", "c", "d", "e", "f", "g", "h">>

\* C23 as stated: an item joins the seed's cluster only when its similarity
\* to the seed exceeds the threshold
C23_ExceedsThreshold ==
    (pc = "done" /\ call.op = "try_similarity_fusion") =>
        /\ GreedyClusters(call.data, call.value, ret.similar_groups, TRUE)
        /\ LeftmostOfLargest(call.data, ret.similar_groups, ret.result)

\* ------------------------------------------------------------------------
\* Properties of the numeric fusion
\* ------------------------------------------------------------------------
\* the unit of the first number extracted from value, in lower case
FirstUnit(value) == Lower(extract_numeric_info(value)[1].unit)

\* the values of data that carry a number
WithNumbers(data) == SelectSeq(data, LAMBDA d : extract_numeric_info(d) # <<>>)

\* the values of data whose first unit is unit
OfUnit(data, unit) == SelectSeq(data, LAMBDA d : FirstUnit(d) = unit)

C30_NoDataOnlyForEmpty ==
    \A i \in 1..index :
        fusion_types[i] # T_manual_review =>
            \A v \in 1..MaxVendors :
                ~IsEmptyValue(VendorValue(i, v)) =>
                    vendor_compliance_colors[v][i] \in {"blue", "none"}

====
